---- MODULE Spec2Model ----
(***************************************************************************)
(* Model of the generic min heap with a hash table parameter               *)
(* (src/data-structures/heap/heap.c).                                      *)
(*                                                                         *)
(* A pair is the (priority, element) block of pair_size bytes stored at    *)
(* pty_ptr(h, i); a memcpy of pair_size bytes moves it as one record.      *)
(* Pointers into pty_elts are modelled by the slot index they point to.    *)
(* The two scratch blocks of h->buf are written by every helper before it  *)
(* reads them, so each helper holds its block as a local value buf.        *)
(* The hash table behind h->hht is external to heap.c; it is modelled as a *)
(* key -> value map with the insert / search / remove contract.            *)
(***************************************************************************)
EXTENDS Integers, Sequences, FiniteSets, Bags, TLC

\* ---------------------------------------------------------------- bounds
MaxElt == 4          \* element bit patterns are 1..MaxElt
MaxPty == 3          \* priority values are 1..MaxPty
MaxMinNum == 1       \* heap_init's min_num is drawn from 1..MaxMinNum
MaxCountMax == 4     \* the count_max field holds a value in 0..MaxCountMax
MaxGrowCount == 6    \* growth: small full heaps hold 1..MaxGrowCount pairs
MaxSize == 8         \* layout: pty_size and elt_size are drawn from 1..MaxSize
MaxTenPty == 2       \* ten pushes: priority values are 1..MaxTenPty
MaxTenCountMax == 17 \* ten pushes: count_max is drawn from 10..MaxTenCountMax
MaxPtr == 3          \* heap without a hash table: element pointers 1..MaxPtr
MaxPushC == 4        \* heap without a hash table: pushes made in one run
MaxIdxNum == 6       \* index arithmetic: small full heaps hold 1..MaxIdxNum pairs
MaxTwoElt == 3      \* elements pushed to the two heaps driven together
ChnBuckets == 2     \* buckets of the chaining hash table
MaxIdxOps == 2       \* index arithmetic: updates made on a small heap

\* size_t is an unsigned type of SIZE_BITS bits: arithmetic is modulo 2^SIZE_BITS
SIZE_BITS == 16
SIZE_MOD == 2 ^ SIZE_BITS

Elts == 1..MaxElt
Ptys == 1..MaxPty
NULL == -1

\* contents of a block that was allocated and never written
NoPair == [pty |-> 0, elt |-> 0]

sz_add(a, b) == (a + b) % SIZE_MOD
sz_sub(a, b) == (a - b + SIZE_MOD) % SIZE_MOD
sz_mul(a, b) == (a * b) % SIZE_MOD

\* ------------------------------------------------- comparison of priorities
\* cmp_uint of the test drivers: 1, -1 or 0
cmp_pty(a, b) == IF a > b THEN 1 ELSE IF a < b THEN -1 ELSE 0

\* ------------------------------------------ hash table interface (h->hht)
\* insert is an upsert, search yields the value or NULL, remove deletes the key
ht_insert(ht, key, val) ==
  [k \in (DOMAIN ht) \cup {key} |-> IF k = key THEN val ELSE ht[k]]
ht_search(ht, key) == IF key \in DOMAIN ht THEN ht[key] ELSE NULL
ht_remove(ht, key) == [k \in (DOMAIN ht) \ {key} |-> ht[k]]
ht_empty == [k \in {} |-> 0]
\* the table after its free: it holds no key
ht_free(ht) == ht_empty

\* A second hash table for the same interface, with chaining: a key goes to
\* the bucket key % ChnBuckets, a bucket is a list of nodes [key, val].
chn_empty == [b \in 0..(ChnBuckets - 1) |-> <<>>]
\* an insert that adds a node behind the others without a look at the keys
chn_insert_append(t, key, val) ==
  [t EXCEPT ![key % ChnBuckets] = Append(@, [key |-> key, val |-> val])]
\* insert is an upsert: the node of the key takes the value, or a new node is
\* put in front of the bucket's list
chn_insert(t, key, val) ==
  LET c == t[key % ChnBuckets]
  IN  [t EXCEPT ![key % ChnBuckets] =
         IF \A i \in 1..Len(c) : c[i].key # key
         THEN <<[key |-> key, val |-> val]>> \o c
         ELSE [i \in 1..Len(c) |->
                 IF c[i].key = key THEN [key |-> key, val |-> val] ELSE c[i]]]
\* the value of the first node of the key, or NULL
chn_search(t, key) ==
  LET c == t[key % ChnBuckets]
      hits == {i \in 1..Len(c) : c[i].key = key}
  IN  IF hits = {} THEN NULL
      ELSE c[CHOOSE i \in hits : \A j \in hits : i <= j].val
chn_remove(t, key) ==
  [t EXCEPT ![key % ChnBuckets] = SelectSeq(@, LAMBDA n : n.key # key)]

\* the calls heap.c makes through h->hht; calls lists the mutating ones issued
\* by the operation in progress, in order, together with its writes to the
\* slots of pty_elts (empty between operations). hht names the heap_ht_t that
\* heap_init was given: "map" for the key-to-slot map, "chn" for the chaining
\* table.
index_insert(H, key, val) ==
  [H EXCEPT !.ht = IF H.hht = "chn" THEN chn_insert(H.ht, key, val)
                   ELSE ht_insert(H.ht, key, val),
            !.calls = Append(H.calls, [f |-> "insert", key |-> key, val |-> val])]
index_remove(H, key) ==
  [H EXCEPT !.ht = IF H.hht = "chn" THEN chn_remove(H.ht, key)
                   ELSE ht_remove(H.ht, key),
            !.calls = Append(H.calls, [f |-> "remove", key |-> key, val |-> NULL])]
index_search(H, key) ==
  IF H.hht = "chn" THEN chn_search(H.ht, key) ELSE ht_search(H.ht, key)

\* ------------------------------------------------------------ heap helpers
pty_ptr(H, i) == H.pty_elts[i].pty
elt_ptr(H, i) == H.pty_elts[i].elt

\* the byte offsets from h->pty_elts of the addresses that pty_ptr and elt_ptr
\* compute for slot i
pty_addr(H, i) == sz_mul(i, H.pair_size)
elt_addr(H, i) == sz_add(sz_mul(i, H.pair_size), H.pty_size)

\* realloc of pty_elts to n pairs: the old pairs are kept, new blocks unwritten
realloc_pairs(old, n) ==
  [i \in 0..(n - 1) |-> IF i \in DOMAIN old THEN old[i] ELSE NoPair]

\* a memcpy into slot i of pty_elts that leaves pair there; the list calls
\* also records these writes, with the element the slot holds afterwards
slot_write(H, i, pair) ==
  [H EXCEPT !.pty_elts[i] = pair,
            !.calls = Append(H.calls, [f |-> "memcpy", key |-> pair.elt, val |-> i])]

swap(H, i, j) ==
  IF i = j THEN H
  ELSE LET buf == H.pty_elts[i]
           m1  == slot_write(H, i, H.pty_elts[j])
           m2  == slot_write(m1, j, buf)
           t1 == index_insert(m2, elt_ptr(m2, i), i)
       IN  index_insert(t1, elt_ptr(t1, j), j)

\* half_swap that copies the pair and leaves the hash table as it was
half_swap_noindex(H, t, s) ==
  IF s = t THEN H ELSE [H EXCEPT !.pty_elts[t] = H.pty_elts[s]]

\* half_swap whose memcpy has the length pty_size: the element stays behind
half_swap_ptyonly(H, t, s) ==
  IF s = t THEN H
  ELSE LET m == [H EXCEPT !.pty_elts[t].pty = H.pty_elts[s].pty]
       IN  index_insert(m, elt_ptr(m, t), t)

\* half_swap that maps the element of slot s to t before it copies the pair
half_swap_indexfirst(H, t, s) ==
  IF s = t THEN H
  ELSE LET m == index_insert(H, elt_ptr(H, s), t)
       IN  slot_write(m, t, H.pty_elts[s])

half_swap(H, t, s) ==
  IF s = t THEN H
  ELSE LET m == slot_write(H, t, H.pty_elts[s])
       IN  index_insert(m, elt_ptr(m, t), t)

\* heap_grow that tests the doubled count, computed in size_t, against
\* count_max
heap_grow_doublefirst(H) ==
  IF H.count = H.count_max
  THEN [H EXCEPT !.exited = TRUE]
  ELSE LET c == IF sz_mul(H.count, 2) > H.count_max
                THEN H.count_max
                ELSE sz_mul(H.count, 2)
       IN  [H EXCEPT !.count = c, !.pty_elts = realloc_pairs(H.pty_elts, c)]

\* heap_grow with the two branches of the capacity test exchanged
heap_grow_capswapped(H) ==
  IF H.count = H.count_max
  THEN [H EXCEPT !.exited = TRUE]
  ELSE LET c == IF sz_sub(H.count_max, H.count) < H.count
                THEN sz_mul(H.count, 2)
                ELSE H.count_max
       IN  [H EXCEPT !.count = c, !.pty_elts = realloc_pairs(H.pty_elts, c)]

\* heap_grow that adds half of the count instead of doubling it
heap_grow_halfstep(H) ==
  IF H.count = H.count_max
  THEN [H EXCEPT !.exited = TRUE]
  ELSE LET c == IF sz_sub(H.count_max, H.count) < H.count
                THEN H.count_max
                ELSE sz_add(H.count, H.count \div 2)
       IN  [H EXCEPT !.count = c, !.pty_elts = realloc_pairs(H.pty_elts, c)]

heap_grow(H) ==
  IF H.count = H.count_max
  THEN [H EXCEPT !.exited = TRUE]
  ELSE LET c == IF sz_sub(H.count_max, H.count) < H.count
                THEN H.count_max
                ELSE sz_mul(H.count, 2)
       IN  [H EXCEPT !.count = c, !.pty_elts = realloc_pairs(H.pty_elts, c)]

\* the loop of heapify_up with if in place of while: at most one step up
heapify_up_loop_once(H, buf, i) ==
  IF i > 0
  THEN LET ju == sz_sub(i, 1) \div 2
       IN  IF cmp_pty(pty_ptr(H, ju), buf.pty) > 0
           THEN [h |-> half_swap(H, i, ju), i |-> ju]
           ELSE [h |-> H, i |-> i]
  ELSE [h |-> H, i |-> i]

\* the loop of heapify_up that also moves the pair above a parent of equal
\* priority
RECURSIVE heapify_up_loop_nonstrict(_, _, _)
heapify_up_loop_nonstrict(H, buf, i) ==
  IF i > 0
  THEN LET ju == sz_sub(i, 1) \div 2
       IN  IF cmp_pty(pty_ptr(H, ju), buf.pty) >= 0
           THEN heapify_up_loop_nonstrict(half_swap(H, i, ju), buf, ju)
           ELSE [h |-> H, i |-> i]
  ELSE [h |-> H, i |-> i]

\* the loop of heapify_up that walks to the next lower slot instead of the
\* parent slot
RECURSIVE heapify_up_loop_linear(_, _, _)
heapify_up_loop_linear(H, buf, i) ==
  IF i > 0
  THEN LET ju == sz_sub(i, 1)
       IN  IF cmp_pty(pty_ptr(H, ju), buf.pty) > 0
           THEN heapify_up_loop_linear(half_swap(H, i, ju), buf, ju)
           ELSE [h |-> H, i |-> i]
  ELSE [h |-> H, i |-> i]

\* the while loop of heapify_up: the walk of index i towards the root
RECURSIVE heapify_up_loop(_, _, _)
heapify_up_loop(H, buf, i) ==
  IF i > 0
  THEN LET ju == sz_sub(i, 1) \div 2
       IN  IF cmp_pty(pty_ptr(H, ju), buf.pty) > 0
           THEN heapify_up_loop(half_swap(H, i, ju), buf, ju)
           ELSE [h |-> H, i |-> i]
  ELSE [h |-> H, i |-> i]

heapify_up(H, i) ==
  LET buf == H.pty_elts[i]
      r   == heapify_up_loop(H, buf, i)
      m   == slot_write(r.h, r.i, buf)
  IN  index_insert(m, elt_ptr(m, r.i), r.i)

\* a loop guard that also holds when only the left child has an element
both_children_offbyone(num_elts, i) ==
  sz_add(i, 1) <= sz_sub(sz_sub(num_elts, 1), i)

\* the loop guard of heapify_down, i + 2 <= h->num_elts - 1 - i in size_t
both_children(num_elts, i) ==
  sz_add(i, 2) <= sz_sub(sz_sub(num_elts, 1), i)

\* the test after the loop, i + 1 == h->num_elts - 1 - i in size_t
lone_left(num_elts, i) ==
  sz_add(i, 1) = sz_sub(sz_sub(num_elts, 1), i)

\* the loop of heapify_down that descends to the left child whenever the
\* buffered priority is greater, without looking at the right child first
RECURSIVE heapify_down_loop_leftfirst(_, _, _)
heapify_down_loop_leftfirst(H, buf, i) ==
  IF both_children(H.num_elts, i)
  THEN LET jl == sz_add(sz_mul(2, i), 1)
           jr == sz_add(sz_mul(2, i), 2)
       IN  IF cmp_pty(buf.pty, pty_ptr(H, jl)) > 0
           THEN heapify_down_loop_leftfirst(half_swap(H, i, jl), buf, jl)
           ELSE IF cmp_pty(buf.pty, pty_ptr(H, jr)) > 0
                THEN heapify_down_loop_leftfirst(half_swap(H, i, jr), buf, jr)
                ELSE [h |-> H, i |-> i]
  ELSE [h |-> H, i |-> i]

\* the loop of heapify_down that descends to the left child only when it is
\* strictly smaller than the right child
RECURSIVE heapify_down_loop_tieright(_, _, _)
heapify_down_loop_tieright(H, buf, i) ==
  IF both_children(H.num_elts, i)
  THEN LET jl == sz_add(sz_mul(2, i), 1)
           jr == sz_add(sz_mul(2, i), 2)
       IN  IF cmp_pty(buf.pty, pty_ptr(H, jl)) > 0
              /\ cmp_pty(pty_ptr(H, jl), pty_ptr(H, jr)) < 0
           THEN heapify_down_loop_tieright(half_swap(H, i, jl), buf, jl)
           ELSE IF cmp_pty(buf.pty, pty_ptr(H, jr)) > 0
                THEN heapify_down_loop_tieright(half_swap(H, i, jr), buf, jr)
                ELSE [h |-> H, i |-> i]
  ELSE [h |-> H, i |-> i]

\* the loop of heapify_down that also descends past a child of equal priority
RECURSIVE heapify_down_loop_nonstrict(_, _, _)
heapify_down_loop_nonstrict(H, buf, i) ==
  IF both_children(H.num_elts, i)
  THEN LET jl == sz_add(sz_mul(2, i), 1)
           jr == sz_add(sz_mul(2, i), 2)
       IN  IF cmp_pty(buf.pty, pty_ptr(H, jl)) >= 0
              /\ cmp_pty(pty_ptr(H, jl), pty_ptr(H, jr)) <= 0
           THEN heapify_down_loop_nonstrict(half_swap(H, i, jl), buf, jl)
           ELSE IF cmp_pty(buf.pty, pty_ptr(H, jr)) >= 0
                THEN heapify_down_loop_nonstrict(half_swap(H, i, jr), buf, jr)
                ELSE [h |-> H, i |-> i]
  ELSE [h |-> H, i |-> i]

\* the while loop of heapify_down: both children of i hold elements
RECURSIVE heapify_down_loop(_, _, _)
heapify_down_loop(H, buf, i) ==
  IF both_children(H.num_elts, i)
  THEN LET jl == sz_add(sz_mul(2, i), 1)
           jr == sz_add(sz_mul(2, i), 2)
       IN  IF cmp_pty(buf.pty, pty_ptr(H, jl)) > 0
              /\ cmp_pty(pty_ptr(H, jl), pty_ptr(H, jr)) <= 0
           THEN heapify_down_loop(half_swap(H, i, jl), buf, jl)
           ELSE IF cmp_pty(buf.pty, pty_ptr(H, jr)) > 0
                THEN heapify_down_loop(half_swap(H, i, jr), buf, jr)
                ELSE [h |-> H, i |-> i]
  ELSE [h |-> H, i |-> i]

\* heapify_down without the step for a last slot that is a lone left child
heapify_down_noleft(H, i) ==
  LET buf == H.pty_elts[i]
      r   == heapify_down_loop(H, buf, i)
      m   == [r.h EXCEPT !.pty_elts[r.i] = buf]
  IN  index_insert(m, elt_ptr(m, r.i), r.i)

\* heapify_down that moves a lone left child up when it is not greater than
\* the buffered pair
heapify_down_nonstrict(H, i) ==
  LET buf == H.pty_elts[i]
      r   == heapify_down_loop(H, buf, i)
      jl  == sz_add(sz_mul(2, r.i), 1)
      l   == IF lone_left(r.h.num_elts, r.i)
                /\ cmp_pty(buf.pty, pty_ptr(r.h, jl)) >= 0
             THEN [h |-> half_swap(r.h, r.i, jl), i |-> jl]
             ELSE r
      m   == slot_write(l.h, l.i, buf)
  IN  index_insert(m, elt_ptr(m, l.i), l.i)

heapify_down(H, i) ==
  LET buf == H.pty_elts[i]
      r   == heapify_down_loop(H, buf, i)
      jl  == sz_add(sz_mul(2, r.i), 1)
      l   == IF lone_left(r.h.num_elts, r.i)
                /\ cmp_pty(buf.pty, pty_ptr(r.h, jl)) > 0
             THEN [h |-> half_swap(r.h, r.i, jl), i |-> jl]
             ELSE r
      m   == slot_write(l.h, l.i, buf)
  IN  index_insert(m, elt_ptr(m, l.i), l.i)

\* -------------------------------------------------------- heap operations
\* add_sz_perror: the sum of two size_t values; a sum that does not fit in
\* size_t ends the process
add_sz_perror(a, b) == [sum |-> sz_add(a, b), exited |-> a + b >= SIZE_MOD]

\* sizeof(size_t), the size of the priorities and elements of the drivers
SIZEOF_SIZE_T == SIZE_BITS \div 8

\* h->buf after heap_init: two scratch blocks; the helpers hold what they
\* write to them as local values, the field records the allocation
BufBlocks == [i \in 0..1 |-> NoPair]

\* the null pointer as the value of pty_elts or buf: no block at any i >= 0
NullBlock == [i \in {NULL} |-> NoPair]

\* a value of the free_elt parameter that is not NULL
FREE_ELT == 1

\* count_max is not assigned by heap_init: the field keeps the value cm that
\* the caller's block held
\* the layout that takes elt_size for elt_offset whatever the sizes are
pair_layout_nooffset(pty_size, elt_size) ==
  LET pr == add_sz_perror(elt_size, elt_size)
      pty_rem == pr.sum % pty_size
      ps == add_sz_perror(sz_add(elt_size, elt_size),
                          IF pty_rem > 0 THEN pty_size - pty_rem ELSE 0)
  IN  [elt_offset |-> elt_size, pair_size |-> ps.sum,
       exited |-> pr.exited \/ ps.exited]

\* elt_offset and pair_size as heap_init computes them
pair_layout(pty_size, elt_size) ==
  LET elt_rem == pty_size % elt_size
      eo == IF pty_size <= elt_size
            THEN [sum |-> elt_size, exited |-> FALSE]
            ELSE add_sz_perror(pty_size,
                               IF elt_rem > 0 THEN elt_size - elt_rem ELSE 0)
      pr == add_sz_perror(eo.sum, elt_size)
      pty_rem == pr.sum % pty_size
      ps == add_sz_perror(sz_add(eo.sum, elt_size),
                          IF pty_rem > 0 THEN pty_size - pty_rem ELSE 0)
  IN  [elt_offset |-> eo.sum, pair_size |-> ps.sum,
       exited |-> eo.exited \/ pr.exited \/ ps.exited]

heap_init(pty_size, elt_size, min_num, free_elt, cm) ==
  LET lay == pair_layout(pty_size, elt_size)
  IN  [pty_size   |-> pty_size,
       elt_size   |-> elt_size,
       elt_offset |-> lay.elt_offset,
       pair_size  |-> lay.pair_size,
       count      |-> min_num,
       count_max  |-> cm,
       num_elts   |-> 0,
       buf        |-> BufBlocks,
       free_elt   |-> free_elt,
       pty_elts   |-> realloc_pairs([i \in {} |-> NoPair], min_num),
       hht        |-> "map",
       ht         |-> ht_empty,
       hht_init   |-> [key_size |-> elt_size, elt_size |-> SIZEOF_SIZE_T,
                       min_num |-> min_num],
       hht_align  |-> NULL,
       calls      |-> <<>>,
       exited     |-> lay.exited,
       ub         |-> FALSE]

\* heap_init with the heap_ht_t it is given: h->hht = hht and the call of
\* hht->init
heap_init_hht(pty_size, elt_size, min_num, free_elt, cm, hht) ==
  [heap_init(pty_size, elt_size, min_num, free_elt, cm)
     EXCEPT !.hht = hht, !.ht = IF hht = "chn" THEN chn_empty ELSE ht_empty]

\* heap_align: elt_offset and pair_size are computed again from the
\* alignments, buf and pty_elts are reallocated with the new pair_size and
\* hht->align is called with sz_alignment (hht_align keeps its argument, NULL
\* before the first call). The source names the undeclared init_count for the
\* number of pairs of pty_elts; the count of the heap is taken, which is the
\* initial count when heap_align follows heap_init.
heap_align(H, pty_alignment, elt_alignment, sz_alignment) ==
  LET elt_rem == H.pty_size % elt_alignment
      eo == IF H.elt_size = 0
            THEN [sum |-> H.pty_size, exited |-> FALSE]
            ELSE IF H.pty_size <= elt_alignment
            THEN [sum |-> elt_alignment, exited |-> FALSE]
            ELSE add_sz_perror(H.pty_size,
                               IF elt_rem > 0 THEN elt_alignment - elt_rem ELSE 0)
      pr == add_sz_perror(eo.sum, H.elt_size)
      pty_rem == pr.sum % pty_alignment
      ps == add_sz_perror(sz_add(eo.sum, H.elt_size),
                          IF pty_rem > 0 THEN pty_alignment - pty_rem ELSE 0)
  IN  IF eo.exited \/ pr.exited \/ ps.exited
      THEN [H EXCEPT !.exited = TRUE]
      ELSE [H EXCEPT !.elt_offset = eo.sum,
                     !.pair_size = ps.sum,
                     !.buf = BufBlocks,
                     !.pty_elts = realloc_pairs(H.pty_elts, H.count),
                     !.hht_align = sz_alignment,
                     !.calls = Append(H.calls, [f |-> "align", key |-> NULL,
                                                val |-> sz_alignment])]

\* heap_push that does not increment num_elts
heap_push_noinc(H, pty, elt) ==
  LET ix == H.num_elts
      g  == IF H.count = ix THEN heap_grow(H) ELSE H
  IN  IF g.exited THEN g
      ELSE LET w == [g EXCEPT !.pty_elts[ix] = [pty |-> pty, elt |-> elt]]
               t == index_insert(w, elt, ix)
           IN  heapify_up(t, ix)

\* heap_push that enters the element in the hash table and counts it before
\* it tests whether the heap has to grow
heap_push_countfirst(H, pty, elt) ==
  LET ix == H.num_elts
      t  == index_insert(H, elt, ix)
      n  == [t EXCEPT !.num_elts = sz_add(t.num_elts, 1)]
      g  == IF H.count = ix THEN heap_grow(n) ELSE n
  IN  IF g.exited THEN g
      ELSE heapify_up([g EXCEPT !.pty_elts[ix] = [pty |-> pty, elt |-> elt]], ix)

\* heap_push that grows the heap one push before it is full
heap_push_growearly(H, pty, elt) ==
  LET ix == H.num_elts
      g  == IF H.count <= sz_add(ix, 1) THEN heap_grow(H) ELSE H
  IN  IF g.exited THEN g
      ELSE LET p == slot_write(g, ix, [pty |-> pty, elt |-> elt_ptr(g, ix)])
               w == slot_write(p, ix, [pty |-> pty, elt |-> elt])
               t == index_insert(w, elt, ix)
               n == [t EXCEPT !.num_elts = sz_add(t.num_elts, 1)]
           IN  heapify_up(n, ix)

\* heap_push that returns at once when the index already holds the element
heap_push_checked(H, pty, elt) ==
  IF index_search(H, elt) # NULL THEN H
  ELSE LET ix == H.num_elts
           g  == IF H.count = ix THEN heap_grow(H) ELSE H
       IN  IF g.exited THEN g
           ELSE LET p == slot_write(g, ix, [pty |-> pty, elt |-> elt_ptr(g, ix)])
                    w == slot_write(p, ix, [pty |-> pty, elt |-> elt])
                    t == index_insert(w, elt, ix)
                    n == [t EXCEPT !.num_elts = sz_add(t.num_elts, 1)]
                IN  heapify_up(n, ix)

heap_push(H, pty, elt) ==
  LET ix == H.num_elts
      g  == IF H.count = ix THEN heap_grow(H) ELSE H
  IN  IF g.exited THEN g
      ELSE LET p == slot_write(g, ix, [pty |-> pty, elt |-> elt_ptr(g, ix)])
               w == slot_write(p, ix, [pty |-> pty, elt |-> elt])
               t == index_insert(w, elt, ix)
               n == [t EXCEPT !.num_elts = sz_add(t.num_elts, 1)]
           IN  heapify_up(n, ix)

\* heap_search over a table whose search inserts a missing key with value 0
heap_search_upsert(H, elt) ==
  LET ix == index_search(H, elt)
  IN  IF ix # NULL THEN [h |-> H, ret |-> ix]
      ELSE [h |-> index_insert(H, elt, 0), ret |-> 0]

\* the returned pointer, as the slot whose priority it points to, or NULL
heap_search(H, elt) ==
  LET ix == index_search(H, elt)
  IN  [h |-> H, ret |-> IF ix # NULL THEN ix ELSE NULL]

\* heap_update that sifts upwards only
heap_update_uponly(H, pty, elt) ==
  LET ix == index_search(H, elt)
      w  == [H EXCEPT !.pty_elts[ix].pty = pty]
  IN  heapify_up(w, ix)

\* heap_update that sifts downwards only
heap_update_downonly(H, pty, elt) ==
  LET ix == index_search(H, elt)
      w  == [H EXCEPT !.pty_elts[ix].pty = pty]
  IN  heapify_down(w, ix)

\* heap_update from the point where ix holds a slot index
heap_update_at(H, pty, ix) ==
  LET w == slot_write(H, ix, [pty |-> pty, elt |-> elt_ptr(H, ix)])
  IN  heapify_down(heapify_up(w, ix), ix)

\* heap_update that returns at once when the index does not hold the element
heap_update_checked(H, pty, elt) ==
  LET ix == index_search(H, elt)
  IN  IF ix = NULL THEN H ELSE heap_update_at(H, pty, ix)

\* the result of hht->search is dereferenced without a test: for an element
\* that is not in the index the null pointer is read, which is undefined
\* behaviour (ub); the outcomes are drawn where the call is made
heap_update(H, pty, elt) ==
  LET ix == index_search(H, elt)
  IN  IF ix = NULL THEN [H EXCEPT !.ub = TRUE] ELSE heap_update_at(H, pty, ix)

\* heap_pop that never calls remove on the hash table
heap_pop_noremove(H, o) ==
  IF H.num_elts = 0 THEN [h |-> H, out |-> o]
  ELSE LET ix == 0
           o1 == [pty |-> pty_ptr(H, ix), elt |-> elt_ptr(H, ix)]
           s  == swap(H, ix, sz_sub(H.num_elts, 1))
           d  == [s EXCEPT !.num_elts = sz_sub(s.num_elts, 1)]
       IN  [h |-> IF d.num_elts > 0 THEN heapify_down(d, ix) ELSE d,
            out |-> o1]

\* heap_pop that copies the output blocks after the swap instead of before it
heap_pop_lateread(H, o) ==
  IF H.num_elts = 0 THEN [h |-> H, out |-> o]
  ELSE LET ix == 0
           s  == swap(H, ix, sz_sub(H.num_elts, 1))
           o1 == [pty |-> pty_ptr(s, ix), elt |-> elt_ptr(s, ix)]
           r  == index_remove(s, o1.elt)
           d  == [r EXCEPT !.num_elts = sz_sub(r.num_elts, 1)]
       IN  [h |-> IF d.num_elts > 0 THEN heapify_down(d, ix) ELSE d,
            out |-> o1]

\* heap_pop that copies slot 0 to the output blocks before the empty test
heap_pop_copyfirst(H, o) ==
  LET ix == 0
      o1 == [pty |-> pty_ptr(H, ix), elt |-> elt_ptr(H, ix)]
  IN  IF H.num_elts = 0 THEN [h |-> H, out |-> o1]
      ELSE LET s == swap(H, ix, sz_sub(H.num_elts, 1))
               r == index_remove(s, o1.elt)
               d == [r EXCEPT !.num_elts = sz_sub(r.num_elts, 1)]
           IN  [h |-> IF d.num_elts > 0 THEN heapify_down(d, ix) ELSE d,
                out |-> o1]

\* heap_pop that sifts the root slot down before it decrements num_elts
heap_pop_siftfirst(H, o) ==
  IF H.num_elts = 0 THEN [h |-> H, out |-> o]
  ELSE LET ix == 0
           o1 == [pty |-> pty_ptr(H, ix), elt |-> elt_ptr(H, ix)]
           s  == swap(H, ix, sz_sub(H.num_elts, 1))
           r  == index_remove(s, o1.elt)
           d  == heapify_down(r, ix)
       IN  [h |-> [d EXCEPT !.num_elts = sz_sub(d.num_elts, 1)], out |-> o1]

\* o is the pair of blocks the caller passes as pty and elt
heap_pop(H, o) ==
  IF H.num_elts = 0 THEN [h |-> H, out |-> o]
  ELSE LET ix == 0
           o1 == [pty |-> pty_ptr(H, ix), elt |-> elt_ptr(H, ix)]
           s  == swap(H, ix, sz_sub(H.num_elts, 1))
           r  == index_remove(s, o1.elt)
           d  == [r EXCEPT !.num_elts = sz_sub(r.num_elts, 1)]
       IN  [h |-> IF d.num_elts > 0 THEN heapify_down(d, ix) ELSE d,
            out |-> o1]

\* heap_pop of a heap that is not empty, up to its test of num_elts > 0: the
\* popped pair is parked in slot num_elts
heap_pop_parked(H) ==
  LET r == index_remove(swap(H, 0, sz_sub(H.num_elts, 1)), elt_ptr(H, 0))
  IN  [r EXCEPT !.num_elts = sz_sub(r.num_elts, 1)]

\* the calls of free_elt made by heap_free on slots 0..n-1; a slot pointer
\* computed from a null pty_elts points to no element (key NULL)
free_elt_calls(H, n) ==
  [k \in 1..n |->
     [f |-> "free_elt",
      key |-> IF H.pty_elts = NullBlock THEN NULL ELSE elt_ptr(H, k - 1),
      val |-> k - 1]]

\* a call of free that releases a block: free of a null pointer does nothing
free_calls(H) ==
  (IF H.pty_elts = NullBlock THEN <<>>
   ELSE <<[f |-> "free", key |-> NULL, val |-> 0]>>)
  \o (IF H.buf = NullBlock THEN <<>>
      ELSE <<[f |-> "free", key |-> NULL, val |-> 1]>>)

\* heap_free that passes every allocated slot to free_elt
heap_free_allslots(H) ==
  [H EXCEPT
     !.calls = (IF H.free_elt # NULL THEN free_elt_calls(H, H.count) ELSE <<>>)
               \o free_calls(H)
               \o <<[f |-> "hht_free", key |-> NULL, val |-> NULL]>>,
     !.ht = IF H.hht = "chn" THEN chn_empty ELSE ht_free(H.ht),
     !.pty_elts = NullBlock,
     !.buf = NullBlock]

heap_free(H) ==
  [H EXCEPT
     !.calls = (IF H.free_elt # NULL THEN free_elt_calls(H, H.num_elts) ELSE <<>>)
               \o free_calls(H)
               \o <<[f |-> "hht_free", key |-> NULL, val |-> NULL]>>,
     !.ht = IF H.hht = "chn" THEN chn_empty ELSE ht_free(H.ht),
     !.pty_elts = NullBlock,
     !.buf = NullBlock]

\* ------------------ the heap without a hash table (data_structures_c/heap)
\* heap_t holds an array elts of element pointers and an array ptys of
\* priority values; the names of this heap carry the prefix c_.
Ptrs == 1..MaxPtr
\* the element a pointer points to: pointers 1 and 2 point to matching elements
Key(p) == (p + 1) \div 2
\* cmp_elt_fn: 0 if both pointers point to elements that match
cmp_elt_fn(p, q) == IF Key(p) = Key(q) THEN 0 ELSE 1

\* division of int values truncates towards zero
c_div(a, b) == IF a >= 0 THEN a \div b ELSE -((-a) \div b)

\* what a slot that was allocated and never written holds
NoPtr == 0

c_pty_ptr(H, i) == H.ptys[i]

c_realloc(old, n, unwritten) ==
  [i \in 0..(n - 1) |-> IF i \in DOMAIN old THEN old[i] ELSE unwritten]

c_heap_init(init_heap_size) ==
  [heap_size |-> init_heap_size,
   num_elts  |-> 0,
   elts      |-> c_realloc([i \in {} |-> NoPtr], init_heap_size, NoPtr),
   ptys      |-> c_realloc([i \in {} |-> 0], init_heap_size, 0),
   calls     |-> <<>>,
   fault     |-> "none"]

\* swap that exchanges the priority values and leaves the pointers in place
c_swap_ptysonly(H, i, j) ==
  [H EXCEPT !.ptys[i] = H.ptys[j], !.ptys[j] = H.ptys[i]]

c_swap(H, i, j) ==
  [H EXCEPT !.elts[i] = H.elts[j], !.elts[j] = H.elts[i],
            !.ptys[i] = H.ptys[j], !.ptys[j] = H.ptys[i]]

c_heap_grow(H) ==
  [H EXCEPT !.elts = c_realloc(H.elts, 2 * H.heap_size, NoPtr),
            !.ptys = c_realloc(H.ptys, 2 * H.heap_size, 0),
            !.heap_size = 2 * H.heap_size]

RECURSIVE c_heapify_up(_, _)
c_heapify_up(H, i) ==
  LET ju == c_div(i - 1, 2)
  IN  IF ju >= 0 /\ cmp_pty(c_pty_ptr(H, ju), c_pty_ptr(H, i)) > 0
      THEN c_heapify_up(c_swap(H, i, ju), ju)
      ELSE H

\* the loop of heapify_down that always swaps with the left child
RECURSIVE c_heapify_down_loop_left(_, _)
c_heapify_down_loop_left(H, i) ==
  LET jl == 2 * i + 1
      jr == 2 * i + 2
  IN  IF jr < H.num_elts
         /\ (cmp_pty(c_pty_ptr(H, i), c_pty_ptr(H, jl)) > 0
             \/ cmp_pty(c_pty_ptr(H, i), c_pty_ptr(H, jr)) > 0)
      THEN c_heapify_down_loop_left(c_swap(H, i, jl), jl)
      ELSE [h |-> H, i |-> i]

\* the while loop of heapify_down; the result is the heap and the last i
RECURSIVE c_heapify_down_loop(_, _)
c_heapify_down_loop(H, i) ==
  LET jl == 2 * i + 1
      jr == 2 * i + 2
  IN  IF jr < H.num_elts
         /\ (cmp_pty(c_pty_ptr(H, i), c_pty_ptr(H, jl)) > 0
             \/ cmp_pty(c_pty_ptr(H, i), c_pty_ptr(H, jr)) > 0)
      THEN IF cmp_pty(c_pty_ptr(H, jl), c_pty_ptr(H, jr)) < 0
           THEN c_heapify_down_loop(c_swap(H, i, jl), jl)
           ELSE c_heapify_down_loop(c_swap(H, i, jr), jr)
      ELSE [h |-> H, i |-> i]

c_heapify_down(H, i) ==
  LET r  == c_heapify_down_loop(H, i)
      jl == 2 * r.i + 1
  IN  IF jl = r.h.num_elts - 1
         /\ cmp_pty(c_pty_ptr(r.h, r.i), c_pty_ptr(r.h, jl)) > 0
      THEN c_swap(r.h, r.i, jl)
      ELSE r.h

c_heap_push(H, elt, pty) ==
  LET g  == IF H.heap_size = H.num_elts THEN c_heap_grow(H) ELSE H
      ix == g.num_elts
      w  == [g EXCEPT !.elts[ix] = elt, !.ptys[ix] = pty,
                      !.num_elts = g.num_elts + 1]
  IN  c_heapify_up(w, ix)

\* the heap, and the values written to the caller's elt and pty blocks
c_heap_pop(H) ==
  LET ix == 0
      w  == [H EXCEPT !.elts[ix] = NULL]
      s  == c_swap(w, ix, H.num_elts - 1)
      d  == [s EXCEPT !.num_elts = s.num_elts - 1]
  IN  [h |-> c_heapify_down(d, ix), elt |-> H.elts[ix], pty |-> c_pty_ptr(H, ix)]

\* what h->elts and h->ptys are after heap_free: no array
c_NullBlock == [i \in {NULL} |-> NoPtr]

\* heap_free: free_elt_fn is called on the pointer of every slot below
\* num_elts, in the order of the slots, then elts and ptys are freed and set
\* to NULL; num_elts and heap_size are left as they were. calls lists the
\* calls of free_elt_fn and of free.
c_heap_free(H) ==
  [H EXCEPT
     !.calls = [k \in 1..H.num_elts |->
                  [f |-> "free_elt", key |-> H.elts[k - 1], val |-> k - 1]]
               \o <<[f |-> "free", key |-> NULL, val |-> 0],
                    [f |-> "free", key |-> NULL, val |-> 1]>>,
     !.elts = c_NullBlock,
     !.ptys = c_NullBlock]

\* what the slot in front of slot 0 of elts and of ptys may hold
StrayPtrs == Ptrs \cup {NoPtr}
StrayPtys == Ptys \cup {0}

\* heap_pop on a heap with num_elts = 0. There is no test of num_elts: slot 0
\* is copied to the caller's blocks and set to NULL, then swap(h, 0, -1)
\* reads and writes elts[-1] and ptys[-1], in front of the arrays (undefined
\* behaviour): the process is killed there (fault "killed"), or the accesses
\* go through (fault "oob"), slot 0 takes what was in front of the arrays,
\* num_elts is decremented to -1 and heapify_down finds no child. The result
\* is the set of the outcomes, each with the values written to the caller's
\* elt and pty blocks.
c_heap_pop_empty(H) ==
  LET ix == 0
      w  == [H EXCEPT !.elts[ix] = NULL]
  IN  {[h |-> [w EXCEPT !.fault = "killed"],
        elt |-> H.elts[ix], pty |-> c_pty_ptr(H, ix)]}
      \cup
      {[h |-> c_heapify_down([w EXCEPT !.elts[ix] = e, !.ptys[ix] = p,
                                       !.num_elts = H.num_elts - 1,
                                       !.fault = "oob"], ix),
        elt |-> H.elts[ix], pty |-> c_pty_ptr(H, ix)]
       : e \in StrayPtrs, p \in StrayPtys}

\* the slots of live elements that match elt under cmp_elt_fn
c_matches(H, elt) ==
  {i \in 0..(H.num_elts - 1) : cmp_elt_fn(H.elts[i], elt) = 0}

\* heap_update that sifts the updated slot upwards only
c_heap_update_uponly(H, elt, pty) ==
  IF c_matches(H, elt) = {} THEN [h |-> H, ret |-> 0]
  ELSE LET i == CHOOSE m \in c_matches(H, elt) :
                  \A n \in c_matches(H, elt) : m <= n
       IN  [h |-> c_heapify_up([H EXCEPT !.ptys[i] = pty], i), ret |-> 1]

\* the loop returns at the first i whose element matches
c_heap_update(H, elt, pty) ==
  IF c_matches(H, elt) = {} THEN [h |-> H, ret |-> 0]
  ELSE LET i  == CHOOSE m \in c_matches(H, elt) :
                   \A n \in c_matches(H, elt) : m <= n
           ju == c_div(i - 1, 2)
           w  == [H EXCEPT !.ptys[i] = pty]
       IN  [h |-> IF ju >= 0 /\ cmp_pty(c_pty_ptr(w, ju), c_pty_ptr(w, i)) > 0
                  THEN c_heapify_up(w, i)
                  ELSE c_heapify_down(w, i),
            ret |-> 1]

\* ------------------------------------------------------------------ state
VARIABLES
  h,        \* the heap_t block, with the hash table it drives
  out,      \* the caller's pty and elt blocks passed to heap_pop
  given,    \* element -> priority last passed for it by push or update
  pushed,   \* round trip: the pairs pushed, in push order
  popped,   \* round trip: the pairs popped, in pop order
  sift,     \* the position of a heapify_up in progress, if any
  hc,       \* the heap_t block of the heap without a hash table, when a run
            \* drives both heaps
  held      \* the pointer that heap_search returned to another thread

vars == <<h, out, given, pushed, popped, sift, hc, held>>

\* no pointer is held
NoHeld == [elt |-> 0, ix |-> NULL, freed |-> FALSE]

\* no sift is in progress: every call made so far has returned
NoSift == [pc |-> "idle", buf |-> NoPair, start |-> 0, i |-> 0, ju |-> 0]

NoOut == [pty |-> 0, elt |-> 0]
\* the contents a block passed to heap_pop can hold
OutBlocks == [pty : 0..MaxPty, elt : 0..MaxElt]

\* the elements pushed and not popped since, as the caller knows them
Live == DOMAIN given

\* Element bit patterns are opaque to the heap (they are only copied and
\* used as hash keys), so the caller pushes the least pattern not in the heap.
NextElt(elt) == elt \in Elts \ Live /\ \A e \in Elts \ Live : elt <= e

\* the call has returned: the list of its index calls is dropped
Return(H) == [H EXCEPT !.calls = <<>>]

InitHeap ==
  /\ \E min_num \in 1..MaxMinNum, cm \in 0..MaxCountMax :
       h = heap_init(SIZEOF_SIZE_T, SIZEOF_SIZE_T, min_num, NULL, cm)
  /\ out = NoOut
  /\ given = ht_empty

Init == InitHeap /\ pushed = <<>> /\ popped = <<>> /\ sift = NoSift /\ hc = c_heap_init(1) /\ held = NoHeld

\* heap_push of an element that is not in the heap
Push(pty, elt) ==
  /\ ~h.exited
  /\ NextElt(elt)
  /\ h' = Return(heap_push(h, pty, elt))
  /\ given' = IF h'.exited THEN given ELSE ht_insert(given, elt, pty)
  /\ UNCHANGED <<out, sift, hc, held>>

Pop ==
  /\ ~h.exited
  /\ UNCHANGED <<sift, hc, held>>
  /\ LET r == heap_pop(h, out)
     IN  /\ h' = Return(r.h)
         /\ out' = r.out
         /\ given' = IF h.num_elts = 0 THEN given
                     ELSE ht_remove(given, r.out.elt)

\* heap_update of an element that is in the heap
Update(pty, elt) ==
  /\ ~h.exited
  /\ elt \in Live
  /\ h' = Return(heap_update(h, pty, elt))
  /\ given' = ht_insert(given, elt, pty)
  /\ UNCHANGED <<out, sift, hc, held>>

Search(elt) ==
  /\ ~h.exited
  /\ h' = Return(heap_search(h, elt).h)
  /\ UNCHANGED <<hc, held, sift, out, given>>

HeapPush == \E pty \in Ptys, elt \in Elts : Push(pty, elt) /\ UNCHANGED <<pushed, popped>>
HeapPop == Pop /\ UNCHANGED <<pushed, popped>>
HeapUpdate == \E pty \in Ptys, elt \in Elts : Update(pty, elt) /\ UNCHANGED <<pushed, popped>>
HeapSearch == \E elt \in Elts : Search(elt) /\ UNCHANGED <<pushed, popped>>

Next == HeapPush \/ HeapPop \/ HeapUpdate \/ HeapSearch

Spec == Init /\ [][Next]_vars

\* ------------------------------------------------------------ round trip
\* n pushes of distinct elements followed by pops until the heap is empty
RTPush ==
  /\ popped = <<>>
  /\ \E pty \in Ptys, elt \in Elts :
       /\ Push(pty, elt)
       /\ pushed' = IF h'.exited THEN pushed
                    ELSE Append(pushed, [pty |-> pty, elt |-> elt])
  /\ popped' = popped

RTPop ==
  /\ h.num_elts > 0
  /\ Pop
  /\ popped' = Append(popped, out')
  /\ pushed' = pushed

NextRT == RTPush \/ RTPop

SpecRT == Init /\ [][NextRT]_vars

\* reference: insertion of a pair into a list sorted by priority, after the
\* pairs that do not compare greater; a stable sort of a list by priority
RECURSIVE InsertStable(_, _)
InsertStable(sorted, x) ==
  IF sorted = <<>> THEN <<x>>
  ELSE IF cmp_pty(Head(sorted).pty, x.pty) <= 0
       THEN <<Head(sorted)>> \o InsertStable(Tail(sorted), x)
       ELSE <<x>> \o sorted
RECURSIVE StableSort(_)
StableSort(list) ==
  IF list = <<>> THEN <<>>
  ELSE InsertStable(StableSort(SubSeq(list, 1, Len(list) - 1)), list[Len(list)])

RTDone == ~h.exited /\ Len(pushed) > 0 /\ Len(popped) = Len(pushed)
Range(q) == {q[k] : k \in 1..Len(q)}
DistinctPtys(q) == \A j, k \in 1..Len(q) : j # k => q[j].pty # q[k].pty

\* ----------------------------------------------------------------- growth
\* Pushes on full heaps: heap_grow is applied to counts and count_max values
\* that are small, and to values next to SIZE_MAX / 2 and SIZE_MAX.
HALF_MAX == SIZE_MOD \div 2
GrowInputs ==
  [count : 1..MaxGrowCount, count_max : 0..(2 * MaxGrowCount + 1)]
  \cup [count : 1..MaxGrowCount, count_max : {SIZE_MOD - 1}]
  \cup {x \in [count : {HALF_MAX - 1, HALF_MAX, HALF_MAX + 1},
                count_max : {HALF_MAX + 1, SIZE_MOD - 1}] :
          x.count <= x.count_max}

\* the heap after heap_init with min_num = n and n pushes of the pairs
\* (1, 1), ..., (1, n): no push grows the heap or moves a pair
FullHeap(n, cm) ==
  [heap_init(SIZEOF_SIZE_T, SIZEOF_SIZE_T, n, NULL, cm) EXCEPT
     !.num_elts = n,
     !.pty_elts = [i \in 0..(n - 1) |-> [pty |-> 1, elt |-> i + 1]],
     !.ht = [e \in 1..n |-> e - 1]]

InitGrow ==
  /\ \E x \in GrowInputs :
       /\ h = FullHeap(x.count, x.count_max)
       /\ given = [e \in 1..x.count |-> 1]
  /\ out = NoOut
  /\ pushed = <<>>
  /\ popped = <<>>
  /\ sift = NoSift /\ hc = c_heap_init(1) /\ held = NoHeld

\* heap_push of the pair (1, num_elts + 1) on a full heap, and on a small heap
GrowPush ==
  /\ ~h.exited
  /\ h.num_elts = h.count \/ h.num_elts <= 2 * MaxGrowCount
  /\ h' = Return(heap_push(h, 1, h.num_elts + 1))
  /\ given' = IF h'.exited THEN given ELSE ht_insert(given, h.num_elts + 1, 1)
  /\ UNCHANGED <<hc, held, sift, out, pushed, popped>>

NextGrow == GrowPush

SpecGrow == InitGrow /\ [][NextGrow]_vars

\* ------------------------------------------------------- index arithmetic
\* Full heaps of a few pairs and of as many pairs as an allocation can hold
\* (pair_size >= 2, so SIZE_MAX / 2 pairs at most), all of priority 1; updates
\* and pops are made on the heaps of a few pairs.
IdxNums == (1..MaxIdxNum) \cup {HALF_MAX - 1}
\* the slots a sift is started from: near the root, around the last slot
\* that has children, and near the last slot
IdxSlots(n) ==
  ((0..2) \cup ((n \div 2 - 2)..(n \div 2 + 1)) \cup ((n - 2)..(n - 1)))
  \cap (0..(n - 1))

InitIdx ==
  /\ \E n \in IdxNums :
       /\ h = FullHeap(n, n)
       /\ given = [e \in 1..n |-> 1]
  /\ out = NoOut
  /\ pushed = <<>>
  /\ popped = <<>>
  /\ sift = NoSift /\ hc = c_heap_init(1) /\ held = NoHeld

\* heap_update of the element in one of the slots; pushed lists the pairs
\* passed so far
IdxUpdate ==
  /\ h.count <= MaxIdxNum
  /\ Len(pushed) < MaxIdxOps
  /\ \E pty \in 1..MaxTenPty, i \in IdxSlots(h.num_elts) :
       /\ Update(pty, elt_ptr(h, i))
       /\ pushed' = Append(pushed, [pty |-> pty, elt |-> elt_ptr(h, i)])
  /\ popped' = popped

IdxPop ==
  /\ h.count <= MaxIdxNum
  /\ h.num_elts > 0
  /\ popped = <<>>
  /\ Pop
  /\ popped' = Append(popped, out')
  /\ pushed' = pushed

NextIdx == IdxUpdate \/ IdxPop

SpecIdx == InitIdx /\ [][NextIdx]_vars

\* ------------------------------------------------------------- life cycle
\* A heap with or without an element destructor is filled, drained and freed;
\* heap_free may be called again on the freed heap.
Freed == h.pty_elts = NullBlock

InitFree ==
  /\ \E min_num \in 1..MaxMinNum, cm \in 0..MaxCountMax,
        free_elt \in {NULL, FREE_ELT} :
       h = heap_init(SIZEOF_SIZE_T, SIZEOF_SIZE_T, min_num, free_elt, cm)
  /\ out = NoOut
  /\ given = ht_empty
  /\ pushed = <<>>
  /\ popped = <<>>
  /\ sift = NoSift /\ hc = c_heap_init(1) /\ held = NoHeld

FreePush == ~Freed /\ HeapPush
FreePop == ~Freed /\ HeapPop

\* heap_free; on a freed heap with a destructor and num_elts > 0 the slot
\* pointers passed to free_elt are computed from a null pointer: the call
\* either returns or ends the process
HeapFree ==
  /\ ~h.exited
  /\ LET r == Return(heap_free(h))
     IN  h' \in IF Freed /\ h.free_elt # NULL /\ h.num_elts > 0
                THEN {r, [r EXCEPT !.exited = TRUE]}
                ELSE {r}
  /\ UNCHANGED <<hc, held, sift, out, given, pushed, popped>>

NextFree == FreePush \/ FreePop \/ HeapFree

SpecFree == InitFree /\ [][NextFree]_vars

\* the calls of function f in the list of calls of an operation
CallsOf(calls, f) == SelectSeq(calls, LAMBDA x : x.f = f)

\* ----------------------------------------------------------------- layout
\* Heaps for every pair of a priority size and an element size, filled with
\* pairs of one priority.
InitLayout ==
  /\ \E pty_size \in 1..MaxSize, elt_size \in 1..MaxSize :
       h = heap_init(pty_size, elt_size, 1, NULL, MaxCountMax)
  /\ out = NoOut
  /\ given = ht_empty
  /\ pushed = <<>>
  /\ popped = <<>>
  /\ sift = NoSift /\ hc = c_heap_init(1) /\ held = NoHeld

LayoutPush == \E elt \in Elts : Push(1, elt) /\ UNCHANGED <<pushed, popped>>

\* the alignments a block of size bytes can require: the powers of two that
\* divide its size
Alignments(size) ==
  {a \in 1..size : size % a = 0 /\ \E k \in 0..SIZE_BITS : a = 2^k}

\* heap_align, called between heap_init and the first push with the
\* alignments of the priority, the element and size_t
HeapAlign ==
  /\ ~h.exited
  /\ h.num_elts = 0
  /\ \E pty_alignment \in Alignments(h.pty_size),
        elt_alignment \in Alignments(h.elt_size) :
       h' = Return(heap_align(h, pty_alignment, elt_alignment, SIZEOF_SIZE_T))
  /\ UNCHANGED <<out, given, pushed, popped, sift, hc, held>>

NextLayout == LayoutPush \/ HeapAlign

SpecLayout == InitLayout /\ [][NextLayout]_vars

\* --------------------------------------------------------------- scenario
\* Pushes of distinct elements with priorities among 1, 3, 5 and 8, followed
\* by pops; the elements a, b, c, d are the patterns 1, 2, 3, 4.
ScenPtys == {1, 3, 5, 8}

ScenPush ==
  /\ popped = <<>>
  /\ \E pty \in ScenPtys, elt \in Elts :
       /\ Push(pty, elt)
       /\ pushed' = IF h'.exited THEN pushed
                    ELSE Append(pushed, [pty |-> pty, elt |-> elt])
  /\ popped' = popped

ScenPop == RTPop

NextScen == ScenPush \/ ScenPop

SpecScen == Init /\ [][NextScen]_vars

ScenPushed ==
  <<[pty |-> 5, elt |-> 1], [pty |-> 3, elt |-> 2],
    [pty |-> 8, elt |-> 3], [pty |-> 1, elt |-> 4]>>
ScenPopped ==
  <<[pty |-> 1, elt |-> 4], [pty |-> 3, elt |-> 2],
    [pty |-> 5, elt |-> 1], [pty |-> 8, elt |-> 3]>>

\* ------------------------------------------------------------- ten pushes
\* A heap of capacity 1 and a count_max of at least 10 receives the distinct
\* elements 1, 2, ..., 10 with priorities in 1..MaxTenPty.
TenPushes == 10

InitTen ==
  /\ \E cm \in TenPushes..MaxTenCountMax :
       h = heap_init(SIZEOF_SIZE_T, SIZEOF_SIZE_T, 1, NULL, cm)
  /\ out = NoOut
  /\ given = ht_empty
  /\ pushed = <<>>
  /\ popped = <<>>
  /\ sift = NoSift /\ hc = c_heap_init(1) /\ held = NoHeld

TenPush ==
  /\ ~h.exited
  /\ h.num_elts < TenPushes
  /\ \E pty \in 1..MaxTenPty :
       /\ h' = Return(heap_push(h, pty, h.num_elts + 1))
       /\ given' = IF h'.exited THEN given
                   ELSE ht_insert(given, h.num_elts + 1, pty)
  /\ UNCHANGED <<hc, held, sift, out, pushed, popped>>

NextTen == TenPush

SpecTen == InitTen /\ [][NextTen]_vars

\* the least power of two that is >= n, for n >= 1; 1 for n = 0
RECURSIVE Pow2Ceil(_)
Pow2Ceil(n) == IF n <= 1 THEN 1 ELSE 2 * Pow2Ceil((n + 1) \div 2)

\* ------------------------------------------- heap without a hash table
\* h is the heap_t of data_structures_c/heap; given is the bag of the pairs
\* (pointer, priority) the caller has in the heap, pushed and popped are the
\* bags of the pointers passed to heap_push and written out by heap_pop.
\* Pointers may be pushed more than once and may point to matching elements.
OnePair(pty, elt) == SetToBag({[pty |-> pty, elt |-> elt]})

InitC ==
  /\ \E init_heap_size \in 1..MaxMinNum : h = c_heap_init(init_heap_size)
  /\ out = NoOut
  /\ given = EmptyBag
  /\ pushed = EmptyBag
  /\ popped = EmptyBag
  /\ sift = NoSift /\ hc = c_heap_init(1) /\ held = NoHeld

CPush ==
  /\ BagCardinality(pushed) < MaxPushC
  /\ \E elt \in Ptrs, pty \in Ptys :
       /\ h' = c_heap_push(h, elt, pty)
       /\ given' = given (+) OnePair(pty, elt)
       /\ pushed' = pushed (+) SetToBag({elt})
  /\ UNCHANGED <<hc, held, sift, out, popped>>

\* heap_pop on a heap that is not empty
CPop ==
  /\ h.num_elts > 0
  /\ LET r == c_heap_pop(h)
     IN  /\ h' = r.h
         /\ out' = [pty |-> r.pty, elt |-> r.elt]
         /\ given' = given (-) OnePair(r.pty, r.elt)
         /\ popped' = popped (+) SetToBag({r.elt})
  /\ UNCHANGED <<pushed, sift, hc, held>>

CUpdate ==
  /\ \E elt \in Ptrs, pty \in Ptys :
       LET r == c_heap_update(h, elt, pty)
           i == CHOOSE m \in c_matches(h, elt) :
                  \A n \in c_matches(h, elt) : m <= n
       IN  /\ h' = r.h
           /\ given' = IF r.ret = 0 THEN given
                       ELSE (given (-) OnePair(h.ptys[i], h.elts[i]))
                            (+) OnePair(pty, h.elts[i])
  /\ UNCHANGED <<hc, held, sift, out, pushed, popped>>

NextC == CPush \/ CPop \/ CUpdate

SpecC == InitC /\ [][NextC]_vars

\* The same heap with heap_pop called on the empty heap as well, and with
\* heap_free; after an empty pop or heap_free nothing more is called on the
\* heap, whose calls field then lists the calls that heap_free made.
CEPush == h.fault = "none" /\ h.elts # c_NullBlock /\ CPush

CEPop == h.fault = "none" /\ h.elts # c_NullBlock /\ CPop

CFree ==
  /\ h.fault = "none"
  /\ h.elts # c_NullBlock
  /\ h' = c_heap_free(h)
  /\ UNCHANGED <<out, given, pushed, popped, sift, hc, held>>

CPopEmpty ==
  /\ h.fault = "none"
  /\ h.elts # c_NullBlock
  /\ h.num_elts = 0
  /\ \E r \in c_heap_pop_empty(h) :
       /\ h' = r.h
       /\ out' = [pty |-> r.pty, elt |-> r.elt]
  /\ UNCHANGED <<given, pushed, popped, sift, hc, held>>

NextCE == CEPush \/ CEPop \/ CPopEmpty \/ CFree

SpecCE == InitC /\ [][NextCE]_vars

\* the bag of the pairs in slots 0..n-1 and the bag of their pointers
RECURSIVE ResidentPairs(_, _)
ResidentPairs(H, n) ==
  IF n = 0 THEN EmptyBag
  ELSE ResidentPairs(H, n - 1) (+) OnePair(H.ptys[n - 1], H.elts[n - 1])
RECURSIVE ResidentPtrs(_, _)
ResidentPtrs(H, n) ==
  IF n = 0 THEN EmptyBag
  ELSE ResidentPtrs(H, n - 1) (+) SetToBag({H.elts[n - 1]})

c_HeapOrdered(H) ==
  \A i \in 1..(H.num_elts - 1) :
    cmp_pty(c_pty_ptr(H, c_div(i - 1, 2)), c_pty_ptr(H, i)) <= 0

\* ---------------------------------------------------------------- two heaps
\* The heap with a hash table (h) and the heap without one (hc) are driven by
\* the same calls: pushes of elements that neither heap holds, updates of
\* elements that both hold, pops while the heaps are not empty. out holds the
\* pair last popped from h, popped the pair last popped from hc, given the
\* priority last passed for every element that one of the heaps holds.

\* the pointer passed to the heap without a hash table for element e: the
\* pointers of different elements point to elements that do not match
PtrOf(e) == 2 * e - 1
\* the elements of the live slots of H
EltsOf(H) == {elt_ptr(H, i) : i \in 0..(H.num_elts - 1)}
EltsOfC(H) ==
  {e \in Elts : \E i \in 0..(H.num_elts - 1) : H.elts[i] = PtrOf(e)}

InitTwo ==
  /\ h = heap_init(SIZEOF_SIZE_T, SIZEOF_SIZE_T, 1, NULL, SIZE_MOD - 1)
  /\ hc = c_heap_init(1) /\ held = NoHeld
  /\ out = NoOut
  /\ given = ht_empty
  /\ pushed = <<>>
  /\ popped = <<>>
  /\ sift = NoSift

TwoPush ==
  /\ \E pty \in Ptys, elt \in 1..MaxTwoElt :
       LET resident == EltsOf(h) \cup EltsOfC(hc)
       IN  /\ elt \notin resident
           /\ \A e \in (1..MaxTwoElt) \ resident : elt <= e
           /\ h' = Return(heap_push(h, pty, elt))
           /\ hc' = c_heap_push(hc, PtrOf(elt), pty)
           /\ given' = ht_insert(given, elt, pty)
  /\ UNCHANGED <<out, pushed, popped, sift, held>>

TwoPop ==
  /\ h.num_elts > 0
  /\ hc.num_elts > 0
  /\ LET r  == heap_pop(h, out)
         rc == c_heap_pop(hc)
     IN  /\ h' = Return(r.h)
         /\ out' = r.out
         /\ hc' = rc.h
         /\ popped' = <<[pty |-> rc.pty, elt |-> rc.elt]>>
         /\ given' = [e \in EltsOf(r.h) \cup EltsOfC(rc.h) |-> given[e]]
  /\ UNCHANGED <<pushed, sift, held>>

TwoUpdate ==
  /\ \E pty \in Ptys, elt \in EltsOf(h) \cap EltsOfC(hc) :
       /\ h' = Return(heap_update(h, pty, elt))
       /\ hc' = c_heap_update(hc, PtrOf(elt), pty).h
       /\ given' = ht_insert(given, elt, pty)
  /\ UNCHANGED <<out, pushed, popped, sift, held>>

NextTwo == TwoPush \/ TwoPop \/ TwoUpdate

SpecTwo == InitTwo /\ [][NextTwo]_vars

\* the priorities of the live slots, as a bag
RECURSIVE PtyBag(_, _)
PtyBag(H, n) ==
  IF n = 0 THEN EmptyBag ELSE PtyBag(H, n - 1) (+) SetToBag({pty_ptr(H, n - 1)})
RECURSIVE c_PtyBag(_, _)
c_PtyBag(H, n) ==
  IF n = 0 THEN EmptyBag ELSE c_PtyBag(H, n - 1) (+) SetToBag({c_pty_ptr(H, n - 1)})

\* ------------------------------------------------------ two hash tables
\* Two heaps of heap.c, h with the key-to-slot map and hc with the chaining
\* table, are driven by the same calls. out holds what the call just made
\* gave on h (the pair popped, or the element searched with the priority
\* found, NULL if none; nothing after a push or an update), popped what it
\* gave on hc.
InitHht ==
  /\ h = heap_init_hht(SIZEOF_SIZE_T, SIZEOF_SIZE_T, 1, NULL, SIZE_MOD - 1, "map")
  /\ hc = heap_init_hht(SIZEOF_SIZE_T, SIZEOF_SIZE_T, 1, NULL, SIZE_MOD - 1, "chn")
  /\ out = NoOut
  /\ given = ht_empty
  /\ pushed = <<>>
  /\ popped = <<>>
  /\ sift = NoSift
  /\ held = NoHeld

HhtPush ==
  /\ \E pty \in Ptys, elt \in Elts :
       /\ NextElt(elt)
       /\ h' = Return(heap_push(h, pty, elt))
       /\ hc' = Return(heap_push(hc, pty, elt))
       /\ given' = ht_insert(given, elt, pty)
  /\ out' = NoOut
  /\ popped' = <<>>
  /\ UNCHANGED <<pushed, sift, held>>

HhtUpdate ==
  /\ \E pty \in Ptys, elt \in Live :
       /\ h' = Return(heap_update(h, pty, elt))
       /\ hc' = Return(heap_update(hc, pty, elt))
       /\ given' = ht_insert(given, elt, pty)
  /\ out' = NoOut
  /\ popped' = <<>>
  /\ UNCHANGED <<pushed, sift, held>>

HhtPop ==
  /\ LET r  == heap_pop(h, out)
         rc == heap_pop(hc, IF popped = <<>> THEN NoOut ELSE popped[1])
     IN  /\ h' = Return(r.h)
         /\ hc' = Return(rc.h)
         /\ out' = r.out
         /\ popped' = <<rc.out>>
         /\ given' = IF h.num_elts = 0 THEN given ELSE ht_remove(given, r.out.elt)
  /\ UNCHANGED <<pushed, sift, held>>

\* the priority read through the pointer that heap_search returns
SearchedPty(H, elt) ==
  LET r == heap_search(H, elt)
  IN  IF r.ret = NULL THEN NULL ELSE pty_ptr(H, r.ret)

HhtSearch ==
  /\ \E elt \in Elts :
       /\ out' = [pty |-> SearchedPty(h, elt), elt |-> elt]
       /\ popped' = <<[pty |-> SearchedPty(hc, elt), elt |-> elt]>>
  /\ UNCHANGED <<h, hc, given, pushed, sift, held>>

NextHht == HhtPush \/ HhtUpdate \/ HhtPop \/ HhtSearch

SpecHht == InitHht /\ [][NextHht]_vars

\* ------------------------------------------------------------ interleaving
\* heap_push runs step by step, one array write, one index call or one
\* assignment of a field at a time; a heap_search of another thread, and its
\* read through the pointer that heap_search returned, may each run between
\* any two steps. sift.pc is the position of heap_push, sift.buf
\* the pair being pushed and then h->buf, sift.start the slot ix.

\* heap_push: ix = h->num_elts and the test of h->count == ix
StepPush ==
  /\ sift.pc = "idle"
  /\ ~h.exited
  /\ \E pty \in Ptys, elt \in Elts :
       /\ NextElt(elt)
       /\ sift' = [pc |-> IF h.count = h.num_elts THEN "grow" ELSE "pty",
                   buf |-> [pty |-> pty, elt |-> elt],
                   start |-> h.num_elts, i |-> h.num_elts, ju |-> 0]
  /\ UNCHANGED <<h, out, given, pushed, popped, hc, held>>

\* heap_grow up to the return of realloc: the fatal path, or the assignment
\* of h->count and a realloc that either extends the block in place or moves
\* the pairs to a new block and frees the old one, to which h->pty_elts
\* still points, as does a pointer that heap_search returned before
StepGrow ==
  /\ sift.pc = "grow"
  /\ LET g == heap_grow(h)
     IN  IF g.exited
         THEN h' = Return(g) /\ sift' = NoSift /\ held' = held
         ELSE /\ h' = [h EXCEPT !.count = g.count]
              /\ \/ sift' = [sift EXCEPT !.pc = "extended"] /\ held' = held
                 \/ /\ sift' = [sift EXCEPT !.pc = "moved"]
                    /\ held' = IF held.ix = NULL THEN held
                               ELSE [held EXCEPT !.freed = TRUE]
  /\ UNCHANGED <<out, given, pushed, popped, hc>>

\* heap_grow: the assignment of realloc's result to h->pty_elts
StepStore ==
  /\ sift.pc \in {"extended", "moved"}
  /\ h' = [h EXCEPT !.pty_elts = realloc_pairs(h.pty_elts, h.count)]
  /\ sift' = [sift EXCEPT !.pc = "pty"]
  /\ UNCHANGED <<out, given, pushed, popped, hc, held>>

\* memcpy(pty_ptr(h, ix), pty, h->pty_size)
StepPty ==
  /\ sift.pc = "pty"
  /\ h' = slot_write(h, sift.start,
                     [pty |-> sift.buf.pty, elt |-> elt_ptr(h, sift.start)])
  /\ sift' = [sift EXCEPT !.pc = "elt"]
  /\ UNCHANGED <<out, given, pushed, popped, hc, held>>

\* memcpy(elt_ptr(h, ix), elt, h->elt_size)
StepElt ==
  /\ sift.pc = "elt"
  /\ h' = slot_write(h, sift.start, sift.buf)
  /\ sift' = [sift EXCEPT !.pc = "insert"]
  /\ UNCHANGED <<out, given, pushed, popped, hc, held>>

\* h->hht->insert(h->hht->ht, elt, &ix): from here on the element is found
StepIndex ==
  /\ sift.pc = "insert"
  /\ h' = index_insert(h, sift.buf.elt, sift.start)
  /\ given' = ht_insert(given, sift.buf.elt, sift.buf.pty)
  /\ sift' = [sift EXCEPT !.pc = "count"]
  /\ UNCHANGED <<out, pushed, popped, hc, held>>

\* h->num_elts++ and heapify_up's copy of the pair of slot ix into h->buf
StepCount ==
  /\ sift.pc = "count"
  /\ h' = [h EXCEPT !.num_elts = sz_add(h.num_elts, 1)]
  /\ sift' = [sift EXCEPT !.pc = "loop", !.buf = h.pty_elts[sift.start]]
  /\ UNCHANGED <<out, given, pushed, popped, hc, held>>

\* the test of heapify_up's loop: the parent of slot i compares greater
ParentGreater ==
  /\ sift.i > 0
  /\ cmp_pty(pty_ptr(h, sz_sub(sift.i, 1) \div 2), sift.buf.pty) > 0

\* a passed loop test and the memcpy of half_swap(h, i, ju)
StepCopy ==
  /\ sift.pc = "loop"
  /\ ParentGreater
  /\ LET ju == sz_sub(sift.i, 1) \div 2
     IN  /\ h' = slot_write(h, sift.i, h.pty_elts[ju])
         /\ sift' = [sift EXCEPT !.pc = "copied", !.ju = ju]
  /\ UNCHANGED <<out, given, pushed, popped, hc, held>>

\* a half_swap that also enters the buffered element with the slot it left
StepRemap_both ==
  /\ sift.pc = "copied"
  /\ h' = index_insert(index_insert(h, elt_ptr(h, sift.i), sift.i),
                       sift.buf.elt, sift.ju)
  /\ sift' = [sift EXCEPT !.pc = "loop", !.i = sift.ju]
  /\ UNCHANGED <<out, given, pushed, popped, hc, held>>

\* the hht->insert of half_swap(h, i, ju) and i = ju
StepRemap ==
  /\ sift.pc = "copied"
  /\ h' = index_insert(h, elt_ptr(h, sift.i), sift.i)
  /\ sift' = [sift EXCEPT !.pc = "loop", !.i = sift.ju]
  /\ UNCHANGED <<out, given, pushed, popped, hc, held>>

\* a failed loop test and the memcpy of the buffered pair into slot i
StepWrite ==
  /\ sift.pc = "loop"
  /\ ~ParentGreater
  /\ h' = slot_write(h, sift.i, sift.buf)
  /\ sift' = [sift EXCEPT !.pc = "written"]
  /\ UNCHANGED <<out, given, pushed, popped, hc, held>>

\* the last hht->insert of heapify_up and the return of heap_push
StepInsert ==
  /\ sift.pc = "written"
  /\ h' = Return(index_insert(h, elt_ptr(h, sift.i), sift.i))
  /\ sift' = NoSift
  /\ UNCHANGED <<out, given, pushed, popped, hc, held>>

\* what a read through a pointer into a freed block may yield: any priority,
\* or a value that is no priority
FreedReads == Ptys \cup {NoPair.pty}

\* heap_search of a pushed element by another thread, at any point: the
\* thread holds the returned pointer, pty_ptr(h, *ix_ptr). After a realloc
\* that moved the pairs and before its result is stored, h->pty_elts and so
\* the returned pointer point into the freed block.
StepSearch ==
  /\ ~h.exited
  /\ \E elt \in Live :
       LET r == heap_search(h, elt)
       IN  /\ r.ret # NULL
           /\ held' = [elt |-> elt, ix |-> r.ret, freed |-> sift.pc = "moved"]
           /\ held' # held
  /\ UNCHANGED <<h, out, given, pushed, popped, sift, hc>>

\* the thread reads the priority through the pointer it holds, at any later
\* point: out holds the element searched and the value read. A read through
\* a pointer into a freed block is undefined behaviour and yields any value;
\* the push in progress goes on.
StepRead ==
  /\ ~h.exited
  /\ held.ix # NULL
  /\ \E v \in IF held.freed THEN FreedReads ELSE {pty_ptr(h, held.ix)} :
       /\ out' = [pty |-> v, elt |-> held.elt]
       /\ out' # out
  /\ UNCHANGED <<h, given, pushed, popped, sift, hc, held>>

NextStep ==
  \/ StepPush \/ StepGrow \/ StepStore \/ StepPty \/ StepElt \/ StepIndex
  \/ StepCount \/ StepCopy \/ StepRemap \/ StepWrite \/ StepInsert
  \/ StepSearch \/ StepRead

SpecStep == Init /\ [][NextStep]_vars

\* ------------------------------------------------- update of an absent element
\* Pushes, searches, and heap_update calls with elements that are not in the
\* heap. The read of the null pointer either ends the process or yields some
\* value; a value that is a live slot index makes the call update that slot.
AbsPush == ~h.ub /\ HeapPush
AbsSearch == ~h.ub /\ HeapSearch
UpdateAbsent ==
  /\ ~h.exited
  /\ ~h.ub
  /\ \E pty \in Ptys, elt \in Elts \ Live :
       h' \in {Return(heap_update(h, pty, elt))}
              \cup {Return(heap_update_at(h, pty, v)) : v \in 0..(h.num_elts - 1)}
  /\ UNCHANGED <<hc, held, sift, out, given, pushed, popped>>

NextAbsent == AbsPush \/ AbsSearch \/ UpdateAbsent

SpecAbsent == Init /\ [][NextAbsent]_vars

\* ------------------------------------------------- views of the heap state
LiveSlots == 0..(h.num_elts - 1)
Parent(i) == (i - 1) \div 2
\* the slot holding element e, by a scan of the live slots
SlotsOf(H, e) == {i \in 0..(H.num_elts - 1) : elt_ptr(H, i) = e}

\* heap order of the live slots of H
HeapOrdered(H) ==
  \A i \in 1..(H.num_elts - 1) :
    cmp_pty(pty_ptr(H, Parent(i)), pty_ptr(H, i)) <= 0

\* the hash table of H maps the element of every live slot to the slot
IndexConsistent(H) ==
  \A i \in 0..(H.num_elts - 1) :
    /\ index_search(H, elt_ptr(H, i)) = i
    /\ heap_search(H, elt_ptr(H, i)).ret = i

\* the priority stored with element e, found by a scan of the live slots
StoredPty(H, e) == pty_ptr(H, CHOOSE i \in SlotsOf(H, e) : TRUE)

\* ----------------------------------------------------------------- claims
\* C1. Heap order: after any sequence of completed pushes of absent elements,
\* pops and updates of present elements, every non-root live slot's parent
\* priority compares <= the slot's priority under cmp_pty.
C1_HeapOrder == ~h.exited => HeapOrdered(h)
\* a heap of depth three with strictly ordered levels, reached after a pop
C1_Witness ==
  /\ h.num_elts = 4
  /\ out.elt # 0
  /\ pty_ptr(h, 0) < pty_ptr(h, 1)
  /\ pty_ptr(h, 1) < pty_ptr(h, 3)
  /\ pty_ptr(h, 2) < pty_ptr(h, 3)

\* C2. Index consistency: after every completed push, pop or update, the hash
\* table maps the element of every live slot i to i, and heap_search of that
\* element returns the address of the priority stored in slot i.
C2_IndexConsistency == ~h.exited => IndexConsistent(h)
\* the pair pushed last was sifted from slot 3 to the root: two half swaps
\* relocated the pairs of elements 2 and 1
C2_Witness ==
  /\ h.num_elts = 4
  /\ elt_ptr(h, 0) = 4 /\ elt_ptr(h, 1) = 1 /\ elt_ptr(h, 3) = 2
  /\ heap_search(h, 2).ret = 3

\* C3. No stale index entries: after every completed operation the keys of
\* the hash table are exactly the elements of the live slots, and an element
\* that was popped and not pushed again is not found by heap_search.
C3_NoStaleEntries ==
  ~h.exited =>
    /\ DOMAIN h.ht = EltsOf(h)
    /\ EltsOf(h) = Live
    /\ \A e \in Elts \ Live : heap_search(h, e).ret = NULL
\* the element left in the caller's block by the last pop is no longer in the
\* heap, while other elements are
C3_Witness ==
  /\ out.elt \in Elts \ Live
  /\ h.num_elts >= 2
  /\ heap_search(h, out.elt).ret = NULL

\* C4. Pop returns a minimum: heap_pop on a non-empty heap outputs a pair that
\* was resident, and its priority compares <= the priority of every pair
\* resident at the moment of the call.
C4_PopReturnsMin ==
  (~h.exited /\ h.num_elts > 0) =>
    LET r == heap_pop(h, out)
    IN  /\ r.out.elt \in Live
        /\ r.out.pty = given[r.out.elt]
        /\ \E i \in LiveSlots : h.pty_elts[i] = r.out
        /\ \A e \in Live : cmp_pty(r.out.pty, given[e]) <= 0
        /\ \A i \in LiveSlots : cmp_pty(r.out.pty, pty_ptr(h, i)) <= 0
\* a pop from a full-depth heap whose minimum is strictly below the others
C4_Witness ==
  /\ h.num_elts = 4
  /\ \A i \in 1..3 : pty_ptr(h, 0) < pty_ptr(h, i)
  /\ heap_pop(h, out).out = h.pty_elts[0]
  /\ out.elt # 0

\* C5 as stated. Round trip: pushing n pairs with pairwise distinct elements
\* and popping n times yields exactly the stable sort of the list by priority
\* (equal-priority pairs come out in push order).
C5_RoundTripStable == RTDone => popped = StableSort(pushed)

\* C5 as amended. Round trip: the n pops yield the pushed pairs, each element
\* with its pushed priority, in non-decreasing priority order; the sequence
\* is the stable sort of the list when no two priorities are equal.
C5_RoundTrip ==
  RTDone =>
    /\ Range(popped) = Range(pushed)
    /\ \A k \in 1..(Len(popped) - 1) :
         cmp_pty(popped[k].pty, popped[k + 1].pty) <= 0
    /\ [k \in 1..Len(popped) |-> popped[k].pty]
         = [k \in 1..Len(pushed) |-> StableSort(pushed)[k].pty]
    /\ DistinctPtys(pushed) => popped = StableSort(pushed)
\* a completed round trip of three pairs with distinct priorities pushed in
\* decreasing order
C5_Witness ==
  /\ RTDone
  /\ Len(pushed) = 3
  /\ pushed[1].pty > pushed[2].pty /\ pushed[2].pty > pushed[3].pty
  /\ popped = StableSort(pushed)

\* C6. Count conservation: num_elts increases by exactly 1 on every heap_push
\* that returns, decreases by exactly 1 on every heap_pop called with
\* num_elts > 0, and is unchanged by heap_update and heap_search.
C6_CountConservation ==
  ~h.exited =>
    /\ \A pty \in Ptys, elt \in Elts \ Live :
         LET r == heap_push(h, pty, elt)
         IN  ~r.exited => r.num_elts = h.num_elts + 1
    /\ h.num_elts > 0 => heap_pop(h, out).h.num_elts = h.num_elts - 1
    /\ \A pty \in Ptys, elt \in Live :
         heap_update(h, pty, elt).num_elts = h.num_elts
    /\ \A elt \in Elts : heap_search(h, elt).h.num_elts = h.num_elts
\* a heap reached after a pop from which a push returns, on which a pop, an
\* update and a search of a present and of an absent element can be called
C6_Witness ==
  /\ ~h.exited
  /\ h.num_elts = 3
  /\ out.elt # 0
  /\ \E elt \in Elts \ Live : heap_push(h, 1, elt).num_elts = 4
  /\ heap_pop(h, out).h.num_elts = 2

\* C7. heap_pop on an empty heap is a silent no-op: the caller's output blocks
\* keep their contents, and num_elts, the capacity, the pair array and the
\* hash table are unchanged, no insert or remove being issued to the table.
C7_PopEmptyNoOp ==
  (~h.exited /\ h.num_elts = 0) =>
    /\ heap_pop(h, out) = [h |-> h, out |-> out]
    /\ \A o \in OutBlocks :
         LET r == heap_pop(h, o)
         IN  /\ r.out = o
             /\ r.h.num_elts = 0
             /\ r.h.count = h.count
             /\ r.h.pty_elts = h.pty_elts
             /\ r.h.ht = h.ht
             /\ r.h.calls = <<>>
\* a heap emptied by pops: slot 0 still holds a popped pair and the caller's
\* blocks hold the last popped pair
C7_Witness ==
  /\ ~h.exited
  /\ h.num_elts = 0
  /\ h.count = 4
  /\ out.elt # 0
  /\ h.pty_elts[0] # NoPair
  /\ h.pty_elts[0] = out
  /\ heap_pop(h, out).out = out

\* C8. heap_search is read-only: for any element, present or absent, it leaves
\* num_elts, the capacity, every slot of the pair array and every entry of the
\* hash table unchanged; for an absent element it returns NULL.
C8_SearchReadOnly ==
  ~h.exited =>
    \A elt \in Elts :
      LET r == heap_search(h, elt)
      IN  /\ r.h = h
          /\ r.h.calls = <<>>
          /\ elt \notin Live => r.ret = NULL
          /\ elt \in Live => r.ret \in LiveSlots
\* a heap with present elements and with an absent element that was popped
\* and is still held by a slot beyond num_elts
C8_Witness ==
  /\ ~h.exited
  /\ h.num_elts = 2
  /\ out.elt \in Elts \ Live
  /\ h.pty_elts[2].elt = out.elt
  /\ heap_search(h, out.elt).ret = NULL
  /\ \E elt \in Live : heap_search(h, elt).ret = 1

\* C9. Pairs travel as units: for every live element e, the priority that
\* heap_search(e) points to, and that a heap_pop returns together with e, is
\* the priority given to e by its push or by its most recent update.
C9_PairsTravelAsUnits ==
  ~h.exited =>
    /\ \A e \in Live :
         LET i == heap_search(h, e).ret
         IN  /\ i # NULL
             /\ elt_ptr(h, i) = e
             /\ pty_ptr(h, i) = given[e]
    /\ h.num_elts > 0 =>
         LET r == heap_pop(h, out).out
         IN  r.elt \in Live /\ r.pty = given[r.elt]
\* no pop was made, the element pushed last is at the root and all priorities
\* are equal: the pair was sifted to the root by its push and priorities were
\* updated afterwards
C9_Witness ==
  /\ ~h.exited
  /\ out = NoOut
  /\ h.num_elts = 4
  /\ elt_ptr(h, 0) = 4
  /\ \A i \in LiveSlots : pty_ptr(h, i) = 2
  /\ given[4] = 2

\* C10. heap_update(newP, e) of a present element, started in a state with
\* heap order and index consistency, ends in a state where e's stored
\* priority is newP, every other live element has its previous priority, the
\* set of live elements and num_elts are unchanged, and heap order and index
\* consistency hold again.
C10_UpdatePostcondition ==
  (~h.exited /\ HeapOrdered(h) /\ IndexConsistent(h)) =>
    \A newP \in Ptys, e \in Live :
      LET u == heap_update(h, newP, e)
      IN  /\ Cardinality(SlotsOf(u, e)) = 1
          /\ StoredPty(u, e) = newP
          /\ \A x \in Live \ {e} :
               /\ Cardinality(SlotsOf(u, x)) = 1
               /\ StoredPty(u, x) = StoredPty(h, x)
          /\ EltsOf(u) = EltsOf(h)
          /\ u.num_elts = h.num_elts
          /\ HeapOrdered(u)
          /\ IndexConsistent(u)
\* a heap reached after a pop in which an update takes the element of the
\* deepest slot to the root
C10_Witness ==
  /\ ~h.exited
  /\ h.num_elts = 4
  /\ out.elt # 0
  /\ HeapOrdered(h) /\ IndexConsistent(h)
  /\ \E e \in Live : /\ index_search(h, e) = 3
                      /\ index_search(heap_update(h, 1, e), e) = 0

\* C11. Capacity bounds: in every reachable state 0 <= num_elts <= count <=
\* count_max.
C11_CapacityBounds ==
  /\ 0 <= h.num_elts
  /\ h.num_elts <= h.count
  /\ h.count <= h.count_max

\* C13. Capacity exhaustion: a heap_push called when num_elts = count =
\* count_max ends in the fatal-error path; it writes no slot, leaves num_elts
\* and the capacity as they were and issues no call on the hash table.
C13_ExhaustionIsFatal ==
  (~h.exited /\ h.num_elts = h.count /\ h.count = h.count_max) =>
    \A pty \in Ptys, elt \in Elts \ Live :
      LET r == heap_push(h, pty, elt)
      IN  /\ r.exited
          /\ r.pty_elts = h.pty_elts
          /\ r.num_elts = h.num_elts
          /\ r.count = h.count
          /\ r.ht = h.ht
          /\ r.calls = <<>>
\* the fourth push on a full heap of three pairs with count_max = 3 has exited
C13_Witness ==
  /\ h.exited
  /\ h.num_elts = 3
  /\ h.count = 3
  /\ h.count_max = 3
  /\ Cardinality(DOMAIN h.ht) = 3

\* C20. Decrease-key reaches the root: when heap_update gives a present element
\* e a priority strictly smaller than every other resident priority, e is in
\* slot 0 afterwards, the hash table maps e to 0, and the next heap_pop returns
\* e with the new priority.
C20_DecreaseKeyToRoot ==
  ~h.exited =>
    \A pty \in Ptys, elt \in Live :
      (\A x \in Live \ {elt} : pty < given[x]) =>
        LET u == Return(heap_update(h, pty, elt))
        IN  /\ elt_ptr(u, 0) = elt
            /\ pty_ptr(u, 0) = pty
            /\ index_search(u, elt) = 0
            /\ heap_pop(u, out).out = [pty |-> pty, elt |-> elt]
\* the pair in the deepest slot of a four-pair heap is given a priority below
\* all others: two half swaps and the final write carry it to the root
C20_Witness ==
  /\ ~h.exited
  /\ h.num_elts = 4
  /\ \A i \in 0..3 : pty_ptr(h, i) > 1
  /\ LET u == heap_update(h, 1, elt_ptr(h, 3))
     IN  /\ elt_ptr(u, 0) = elt_ptr(h, 3)
         /\ elt_ptr(u, 3) = elt_ptr(h, 1)
         /\ Len(u.calls) >= 3

\* C12. Growth policy: when heap_grow runs with count = c < count_max, the new
\* capacity is min(2c, count_max), and it is decided without a 2c that wrapped
\* in size_t arithmetic: the new capacity is greater than c and the array has
\* that many blocks, the old pairs first.
C12_GrowthPolicy ==
  (~h.exited /\ h.num_elts = h.count /\ h.count < h.count_max) =>
    LET g == heap_grow(h)
        min2c == IF 2 * h.count < h.count_max THEN 2 * h.count ELSE h.count_max
    IN  /\ ~g.exited
        /\ g.count = min2c
        /\ g.count > h.count
        /\ DOMAIN g.pty_elts = 0..(min2c - 1)
        /\ \A i \in 0..(h.count - 1) : g.pty_elts[i] = h.pty_elts[i]
\* a push on a full heap of SIZE_MAX / 2 + 2 pairs, for which 2c wraps to 2,
\* has grown the heap to count_max = SIZE_MAX
C12_Witness ==
  /\ ~h.exited
  /\ h.num_elts = HALF_MAX + 2
  /\ h.count = SIZE_MOD - 1
  /\ h.count_max = SIZE_MOD - 1
  /\ elt_ptr(h, HALF_MAX + 1) = HALF_MAX + 2

\* C14. heap_free calls free_elt exactly once for each element that is live at
\* the time of the call and for no other element; when free_elt is NULL it
\* makes no destructor call; the free of the hash table is called once, and
\* pty_elts and buf are NULL afterwards.
C14_FreeReleasesLive ==
  (~h.exited /\ ~Freed) =>
    LET r  == heap_free(h)
        fe == CallsOf(r.calls, "free_elt")
    IN  /\ h.free_elt = NULL => fe = <<>>
        /\ h.free_elt # NULL =>
             /\ Len(fe) = Cardinality(Live)
             /\ {fe[k].key : k \in 1..Len(fe)} = Live
        /\ Len(CallsOf(r.calls, "hht_free")) = 1
        /\ Len(CallsOf(r.calls, "free")) = 2
        /\ r.pty_elts = NullBlock
        /\ r.buf = NullBlock
\* a heap with a destructor was freed while it held two pairs, after a pop
\* had left a popped element in a slot beyond the live ones
C14_Witness ==
  /\ Freed
  /\ h.buf = NullBlock
  /\ h.free_elt # NULL
  /\ h.num_elts = 2
  /\ h.count = 4
  /\ out.elt # 0
  /\ Cardinality(Live) = 2

\* C15. A second heap_free on a freed heap releases nothing a second time: it
\* makes no call of free_elt, frees no storage and does not call the free of
\* the hash table again.
C15_SecondFreeReleasesNothing ==
  (~h.exited /\ Freed) => heap_free(h).calls = <<>>

\* C16. Field alignment: for all priority and element sizes in a bounded range
\* of positive integers, with pair_size as computed by heap_init, every slot i
\* has its priority at byte offset i * pair_size, a multiple of pty_size, and
\* its element at the byte offset used by elt_ptr, a multiple of elt_size.
C16_FieldAlignment ==
  \A i \in 0..(h.count - 1) :
    /\ pty_addr(h, i) % h.pty_size = 0
    /\ elt_addr(h, i) % h.elt_size = 0

C18_Scenario ==
  pushed = ScenPushed =>
    /\ popped = SubSeq(ScenPopped, 1, Len(popped))
    /\ Len(popped) = 4 => (h.num_elts = 0 /\ h.ht = ht_empty /\ ~h.exited)
\* the four pushes and the four pops of the scenario have been made
C18_Witness ==
  /\ pushed = ScenPushed
  /\ Len(popped) = 4
  /\ out = [pty |-> 8, elt |-> 3]
  /\ h.num_elts = 0

\* C19. Scenario: a heap initialised with capacity 1 and count_max >= 10
\* accepts 10 pushes of distinct elements with no fatal outcome; the capacity
\* takes the values 1, 2, 4, 8, 16 when count_max >= 16; num_elts is 10 at the
\* end, all pairs are resident with their pushed priorities, and heap order
\* holds.
C19_TenPushes ==
  /\ ~h.exited
  /\ h.num_elts = Cardinality(Live)
  /\ h.count_max >= 16 => h.count = Pow2Ceil(h.num_elts)
  /\ h.count_max < 16 =>
       h.count = IF Pow2Ceil(h.num_elts) < h.count_max
                 THEN Pow2Ceil(h.num_elts) ELSE h.count_max
  /\ \A e \in Live :
       \E i \in 0..(h.num_elts - 1) :
         h.pty_elts[i] = [pty |-> given[e], elt |-> e]
  /\ HeapOrdered(h)
\* ten pushes were made, the capacity is 16, and the last pair pushed was
\* sifted from slot 9 to the root
C19_Witness ==
  /\ h.num_elts = TenPushes
  /\ h.count = 16
  /\ Live = 1..TenPushes
  /\ elt_ptr(h, 0) = TenPushes
  /\ pty_ptr(h, 1) > pty_ptr(h, 0)

\* C21. Heap without a hash table: heap_update returns 1 if and only if some
\* live element matches the argument under cmp_elt_fn; then the priority of
\* the first matching slot is replaced and heap order is restored; otherwise
\* it returns 0 and num_elts, all pointers and all priorities are unchanged.
C21_UnindexedUpdate ==
  \A elt \in Ptrs, pty \in Ptys :
    LET r == c_heap_update(h, elt, pty)
        m == {i \in 0..(h.num_elts - 1) : Key(h.elts[i]) = Key(elt)}
    IN  /\ r.ret = IF m = {} THEN 0 ELSE 1
        /\ r.ret = 0 => r.h = h
        /\ r.ret = 1 =>
             LET i == CHOOSE j \in m : \A k \in m : j <= k
             IN  /\ r.h.num_elts = h.num_elts
                 /\ ResidentPairs(r.h, h.num_elts) =
                      (ResidentPairs(h, h.num_elts)
                         (-) OnePair(h.ptys[i], h.elts[i]))
                      (+) OnePair(pty, h.elts[i])
                 /\ c_HeapOrdered(r.h)
\* slots 1 and 2 hold different pointers to matching elements; an update
\* through the pointer of slot 2 gives slot 1's pair the least priority and
\* it moves to the root
C21_Witness ==
  /\ h.num_elts = 3
  /\ h.elts[1] # h.elts[2]
  /\ Key(h.elts[1]) = Key(h.elts[2])
  /\ Key(h.elts[0]) # Key(h.elts[1])
  /\ c_pty_ptr(h, 0) > 1
  /\ LET r == c_heap_update(h, h.elts[2], 1)
     IN  r.ret = 1 /\ r.h.elts[0] = h.elts[1] /\ r.h.elts[2] = h.elts[2]

\* C22. Heap without a hash table: after any sequence of heap_push, heap_pop on
\* a non-empty heap and heap_update, every non-root slot's priority is >= its
\* parent's under cmp_pty_fn, and each heap_pop outputs a priority that is
\* minimal among the resident priorities.
C22_UnindexedHeapOrder ==
  /\ c_HeapOrdered(h)
  /\ h.num_elts > 0 =>
       LET r == c_heap_pop(h)
       IN  /\ \A i \in 0..(h.num_elts - 1) : cmp_pty(r.pty, c_pty_ptr(h, i)) <= 0
           /\ BagIn([pty |-> r.pty, elt |-> r.elt], ResidentPairs(h, h.num_elts))
\* a pop on a heap of four pairs has left three pairs with distinct
\* priorities in heap order and a null pointer in the slot it vacated
C22_Witness ==
  /\ h.num_elts = 3
  /\ h.elts[3] = NULL
  /\ out.elt # 0
  /\ c_pty_ptr(h, 0) < c_pty_ptr(h, 2)
  /\ c_pty_ptr(h, 2) < c_pty_ptr(h, 1)

\* C23. Heap without a hash table: push and pop handle only the pointer of an
\* element: the pointer written out by heap_pop is one given to heap_push and
\* comes out with the priority it was pushed or last updated with, and the
\* bag of popped pointers plus the pointers still resident is the bag of
\* pushed pointers.
C23_PointerConservation ==
  /\ pushed = popped (+) ResidentPtrs(h, h.num_elts)
  /\ ResidentPairs(h, h.num_elts) = given
  /\ h.num_elts > 0 =>
       LET r == c_heap_pop(h)
       IN  /\ BagIn(r.elt, pushed)
           /\ BagIn([pty |-> r.pty, elt |-> r.elt], given)
           /\ ResidentPtrs(r.h, r.h.num_elts) (+) SetToBag({r.elt})
                = ResidentPtrs(h, h.num_elts)
\* one pointer was pushed twice with different priorities; two pops have
\* been made and both copies of the pointer are still resident
C23_Witness ==
  /\ BagCardinality(pushed) = 4
  /\ BagCardinality(popped) = 2
  /\ h.num_elts = 2
  /\ h.elts[0] = h.elts[1]
  /\ c_pty_ptr(h, 0) < c_pty_ptr(h, 1)

\* C24. In heap_update heapify_up runs first and heapify_down then runs on the
\* original slot ix; from a state in heap order at most one of the two passes
\* relocates a pair: whenever heapify_up moved the updated pair, heapify_down
\* of ix moves nothing.
C24_OnePassMoves ==
  ~h.exited =>
    \A pty \in Ptys, elt \in Live :
      LET ix == index_search(h, elt)
          w  == slot_write(h, ix, [pty |-> pty, elt |-> elt])
          u  == heapify_up(w, ix)
          d  == heapify_down(u, ix)
      IN  /\ heap_update(h, pty, elt) = d
          /\ elt_ptr(u, ix) # elt => d.pty_elts = u.pty_elts
          /\ u.pty_elts = w.pty_elts \/ d.pty_elts = u.pty_elts
\* slots 0, 1 and 3 of a four-pair heap hold equal priorities; an update of
\* slot 1 to a smaller one moves the root pair to slot 1, where it ties with
\* its lone left child
C24_Witness ==
  /\ ~h.exited
  /\ h.num_elts = 4
  /\ pty_ptr(h, 0) = 2
  /\ pty_ptr(h, 1) = 2
  /\ pty_ptr(h, 3) = 2
  /\ LET r == heap_update(h, 1, elt_ptr(h, 1))
     IN  elt_ptr(r, 0) = elt_ptr(h, 1) /\ elt_ptr(r, 1) = elt_ptr(h, 0)

\* the first index insert that heapify_down of slot i issues when the pair of
\* slot i has priority b
FirstInsertDown(i, b) ==
  LET w == [h EXCEPT !.pty_elts[i].pty = b]
  IN  CallsOf(heapify_down(w, i).calls, "insert")[1]
MovesUp(j, i) == [f |-> "insert", key |-> elt_ptr(h, j), val |-> i]

\* C26. heapify_down child selection: with both children present the buffered
\* pair descends to the left child iff its priority is strictly greater than
\* the left child's and the left child's is <= the right child's; otherwise to
\* the right child iff its priority is strictly greater than the right
\* child's; otherwise the walk stops. With only a left child it descends iff
\* its priority is strictly greater than the left child's.
C26_ChildSelection ==
  ~h.exited =>
    \A i \in 0..(h.num_elts - 1), b \in Ptys :
      LET jl == 2 * i + 1
          jr == 2 * i + 2
          ins == FirstInsertDown(i, b)
      IN  /\ jr < h.num_elts =>
               ins = IF b > pty_ptr(h, jl) /\ pty_ptr(h, jl) <= pty_ptr(h, jr)
                     THEN MovesUp(jl, i)
                     ELSE IF b > pty_ptr(h, jr) THEN MovesUp(jr, i)
                     ELSE MovesUp(i, i)
          /\ jl = h.num_elts - 1 =>
               ins = IF b > pty_ptr(h, jl) THEN MovesUp(jl, i) ELSE MovesUp(i, i)
          /\ jl > h.num_elts - 1 => ins = MovesUp(i, i)
\* the children of the root tie below the root's new priority: the left
\* child moves up, and the walk goes on to its lone left child in slot 3
C26_Witness ==
  /\ ~h.exited
  /\ h.num_elts = 4
  /\ pty_ptr(h, 1) = 2
  /\ pty_ptr(h, 2) = 2
  /\ pty_ptr(h, 3) = 2
  /\ FirstInsertDown(0, 3) = MovesUp(1, 0)
  /\ Len(CallsOf(heapify_down([h EXCEPT !.pty_elts[0].pty = 3], 0).calls,
                 "insert")) = 3

\* the slots on the path from slot i to the root, i excluded
RECURSIVE Ancestors(_)
Ancestors(i) == IF i = 0 THEN {} ELSE {Parent(i)} \cup Ancestors(Parent(i))

\* C27. heapify_up moves the sifted pair above its parent only when the
\* parent's priority is strictly greater: every pair it relocates has a
\* strictly greater priority, it stops below the first parent that is not
\* greater, and a pushed pair whose priority equals every ancestor's stays in
\* the slot it was appended to.
C27_StrictUp ==
  ~h.exited =>
    /\ \A i \in LiveSlots, b \in Ptys :
         LET w == [h EXCEPT !.pty_elts[i].pty = b]
             e == elt_ptr(h, i)
             u == heapify_up(w, i)
             k == index_search(u, e)
         IN  /\ elt_ptr(u, k) = e
             /\ k \in {i} \cup Ancestors(i)
             /\ \A j \in LiveSlots :
                  elt_ptr(u, j) # elt_ptr(w, j) /\ j # k => pty_ptr(u, j) > b
             /\ (i > 0 /\ pty_ptr(h, Parent(i)) <= b) => u.pty_elts = w.pty_elts
    /\ \A pty \in Ptys, elt \in Elts :
         LET r == heap_push(h, pty, elt)
             n == h.num_elts
         IN  (NextElt(elt) /\ ~r.exited
              /\ \A j \in Ancestors(n) : pty_ptr(h, j) = pty)
             => /\ elt_ptr(r, n) = elt
                /\ \A j \in LiveSlots : r.pty_elts[j] = h.pty_elts[j]
\* three pairs of priority 2 are live and a fourth pair of priority 2 is about
\* to be pushed below two ancestors of equal priority; it stays in slot 3
C27_Witness ==
  /\ ~h.exited
  /\ h.num_elts = 3
  /\ \A j \in 0..2 : pty_ptr(h, j) = 2
  /\ \E elt \in Elts :
       /\ NextElt(elt)
       /\ ~heap_push(h, 2, elt).exited
       /\ elt_ptr(heap_push(h, 2, elt), 3) = elt

\* C29. The capacity (field count) changes only in a heap_push that finds
\* num_elts = count: heap_pop, heap_update, heap_search and pushes with
\* num_elts < count leave it unchanged, so it never decreases over a run.
C29_CapacityMonotone ==
  [][/\ h'.count >= h.count
     /\ h'.count # h.count =>
          /\ h.num_elts = h.count
          /\ h'.num_elts = h.num_elts + 1
          /\ given' # given
          /\ out' = out]_vars
\* the heap grew to four slots and every pair was popped since: the capacity
\* is still four
C29_Witness ==
  /\ ~h.exited
  /\ h.count = 4
  /\ h.num_elts = 0
  /\ out # NoOut

\* the calls of a sift of slot i whose pair has priority b
SiftUp(i, b) == heapify_up([h EXCEPT !.pty_elts[i].pty = b], i)
SiftDown(i, b) == heapify_down([h EXCEPT !.pty_elts[i].pty = b], i)
\* the slots named by the index inserts of a sift, in call order: the slots
\* filled by its half-swaps, then the final slot of the sifted pair
InsertSlots(H) ==
  LET ins == CallsOf(H.calls, "insert")
  IN  [n \in 1..Len(ins) |-> ins[n].val]
RECURSIVE Log2Floor(_)
Log2Floor(n) == IF n <= 1 THEN 0 ELSE 1 + Log2Floor(n \div 2)

\* C30. Sifts are bounded: heapify_up from slot i makes at most
\* floor(log2(i + 1)) half-swaps, each to the parent slot (i strictly
\* decreasing), and stops at slot 0 or below the first parent that is not
\* greater; heapify_down makes at most floor(log2(num_elts)) half-swaps, each
\* to a child slot (i strictly increasing), and stops where no child is
\* smaller or no child exists.
C30_SiftBounds ==
  ~h.exited =>
    \A i \in LiveSlots, b \in Ptys :
      LET u  == SiftUp(i, b)
          us == InsertSlots(u)
          d  == SiftDown(i, b)
          ds == InsertSlots(d)
          uf == us[Len(us)]
          df == ds[Len(ds)]
      IN  /\ Len(us) >= 1 /\ us[1] = i
          /\ Len(us) - 1 <= Log2Floor(i + 1)
          /\ \A n \in 1..(Len(us) - 1) :
               /\ us[n] > 0
               /\ us[n + 1] = Parent(us[n])
               /\ pty_ptr(h, Parent(us[n])) > b
          /\ uf = 0 \/ pty_ptr(h, Parent(uf)) <= b
          /\ Len(ds) >= 1 /\ ds[1] = i
          /\ Len(ds) - 1 <= Log2Floor(h.num_elts)
          /\ \A n \in 1..(Len(ds) - 1) :
               LET nxt == IF n + 1 < Len(ds) THEN ds[n + 1] ELSE df
               IN  /\ nxt \in {2 * ds[n] + 1, 2 * ds[n] + 2}
                   /\ nxt \in LiveSlots
                   /\ pty_ptr(h, nxt) < b
          /\ \A j \in {2 * df + 1, 2 * df + 2} \cap LiveSlots :
               pty_ptr(h, j) >= b
\* four pairs: a sift up from slot 3 with a priority below both ancestors
\* makes floor(log2(4)) = 2 half-swaps, and so does a sift down from slot 0
\* with a priority above the pairs of slots 1 and 3
C30_Witness ==
  /\ ~h.exited
  /\ h.num_elts = 4
  /\ pty_ptr(h, 0) = 2
  /\ InsertSlots(SiftUp(3, 1)) = <<3, 1, 0>>
  /\ InsertSlots(SiftDown(0, 3)) = <<0, 1, 3>>

\* the other pairs a sift relocated: the slots that hold another element
\* than before, the final slot of the sifted element e excluded
Relocated(H, e) ==
  {j \in LiveSlots : elt_ptr(H, j) # elt_ptr(h, j) /\ elt_ptr(H, j) # e}
\* the accounting of one sift H of the element e
SiftAccounting(H, e) ==
  LET cs  == H.calls
      ins == CallsOf(cs, "insert")
      k   == Cardinality(Relocated(H, e))
      f   == index_search(H, e)
  IN  /\ Len(ins) = k + 1
      /\ \A j \in Relocated(H, e) :
           Cardinality({n \in 1..Len(ins) : ins[n].val = j}) = 1
           /\ \E n \in 1..Len(ins) : ins[n].key = elt_ptr(H, j) /\ ins[n].val = j
      /\ Cardinality({n \in 1..Len(ins) : ins[n].key = e}) = 1
      /\ ins[Len(ins)] = [f |-> "insert", key |-> e, val |-> f]
      /\ elt_ptr(H, f) = e
      /\ Cardinality({n \in 1..Len(cs) : cs[n].f = "memcpy" /\ cs[n].key = e}) = 1
      /\ Len(cs) = 2 * (k + 1)
      /\ cs[Len(cs) - 1] = [f |-> "memcpy", key |-> e, val |-> f]
      /\ \A n \in 1..Len(cs) :
           cs[n].f = "insert" =>
             \E m \in 1..(n - 1) :
               /\ cs[m] = [f |-> "memcpy", key |-> cs[n].key, val |-> cs[n].val]
               /\ \A l \in (m + 1)..(n - 1) : cs[l].val # cs[n].val

\* C28. Half-swap accounting: a sift that relocates k other pairs issues
\* exactly k + 1 index inserts, one per relocated pair with the slot it moved
\* into and one for the sifted pair with its final slot (also when k = 0);
\* the sifted pair is written into the array once, after the walk, and each
\* index insert for a slot follows the write of that slot's pair.
C28_HalfSwapAccounting ==
  ~h.exited =>
    \A i \in LiveSlots, b \in Ptys :
      /\ SiftAccounting(SiftUp(i, b), elt_ptr(h, i))
      /\ SiftAccounting(SiftDown(i, b), elt_ptr(h, i))
\* a sift up from slot 3 relocates the pairs of slots 1 and 0, a sift down
\* from slot 0 relocates the pairs of slots 1 and 3, and a sift of slot 2 with
\* an unchanged priority relocates none and still issues its one insert
C28_Witness ==
  /\ ~h.exited
  /\ h.num_elts = 4
  /\ pty_ptr(h, 0) = 2
  /\ Relocated(SiftUp(3, 1), elt_ptr(h, 3)) = {1, 3}
  /\ Relocated(SiftDown(0, 3), elt_ptr(h, 0)) = {0, 1}
  /\ Len(SiftUp(2, pty_ptr(h, 2)).calls) = 2

\* a heapify_up is between two of its steps, after a half_swap has copied
\* another pair over the start slot and before its final write
MidSift ==
  \/ sift.pc = "copied"
  \/ sift.pc = "loop" /\ sift.i # sift.start

\* C25. Non-atomicity under interleaving: between completed operations heap
\* order and index consistency hold and a search of a live element reads the
\* priority given for it; between two steps of a sift, once a half_swap has
\* copied another pair over the slot of the sifted element e and before the
\* final write, the index still maps e to that slot, which holds a different
\* element, so heap_search(e) returns a pointer to another element's
\* priority.
C25_NonAtomicSift ==
  ~h.exited =>
    /\ sift.pc = "idle" =>
         /\ HeapOrdered(h)
         /\ IndexConsistent(h)
         /\ \A e \in Live :
              /\ heap_search(h, e).ret # NULL
              /\ elt_ptr(h, heap_search(h, e).ret) = e
              /\ pty_ptr(h, heap_search(h, e).ret) = given[e]
    /\ MidSift =>
         LET e  == sift.buf.elt
             ix == heap_search(h, e).ret
         IN  /\ e \in Live
             /\ ix = sift.start
             /\ elt_ptr(h, ix) # e
             /\ pty_ptr(h, ix) # given[e]
             /\ ~IndexConsistent(h)
\* a search of the sifted element ran in the middle of its sift, and the
\* read through the pointer it returned gave a priority that is not the
\* element's
C25_Witness ==
  /\ ~h.exited
  /\ MidSift
  /\ sift.i = 0
  /\ sift.start = 3
  /\ held = [elt |-> sift.buf.elt, ix |-> sift.start, freed |-> FALSE]
  /\ out.elt = sift.buf.elt
  /\ out.pty = pty_ptr(h, sift.start)
  /\ out.pty # given[out.elt]

\* heap_init has returned and no push has been made since
JustInitialised ==
  /\ ~h.exited
  /\ h.num_elts = 0
  /\ out = NoOut
  /\ given = ht_empty
\* the postconditions of heap_init that the fields it assigns deliver
InitialisedEmpty ==
  /\ h.num_elts = 0
  /\ h.count = h.hht_init.min_num
  /\ h.count > 0
  /\ DOMAIN h.pty_elts = 0..(h.count - 1)
  /\ h.hht_init.key_size = h.elt_size
  /\ h.hht_init.elt_size = SIZEOF_SIZE_T
  /\ h.ht = ht_empty
  /\ \A elt \in Elts : heap_search(h, elt) = [h |-> h, ret |-> NULL]
  /\ \A o \in OutBlocks : heap_pop(h, o) = [h |-> h, out |-> o]

\* C31. Immediately after heap_init with min_num > 0 the heap is fully
\* initialised and empty: every field has the value heap_init's arguments
\* determine, whatever the caller's block held before, with num_elts = 0,
\* capacity = min_num, an index initialised for elt_size-byte keys and size_t
\* values that holds no entry, so that heap_search of any element returns
\* not-found and heap_pop is a no-op.
C31_FullyInitialised ==
  JustInitialised =>
    /\ InitialisedEmpty
    /\ \A cm \in 0..MaxCountMax :
         h = heap_init(h.pty_size, h.elt_size, h.hht_init.min_num, h.free_elt, cm)

\* the slots 0..n-1 of the pair array of H
SlotsBelow(H, n) == [i \in 0..(n - 1) |-> H.pty_elts[i]]

\* C32. heap_pop of the only resident pair outputs it, writes no slot, issues
\* no index insert, removes the element's index entry and leaves num_elts = 0
\* and an empty index. In general the downward sift of pop runs only when
\* num_elts > 0 after the decrement, and it neither compares against nor moves
\* the popped pair parked in slot num_elts.
C32_PopLastAndParked ==
  (~h.exited /\ h.num_elts > 0) =>
    LET n   == h.num_elts
        top == h.pty_elts[0]
        r   == heap_pop(h, out)
        d   == heap_pop_parked(h)
        cs  == r.h.calls
        rm  == [f |-> "remove", key |-> top.elt, val |-> NULL]
    IN  /\ r.out = top
        /\ r.h.num_elts = n - 1
        /\ index_search(r.h, top.elt) = NULL
        /\ r.h.pty_elts[n - 1] = top
        /\ CallsOf(cs, "remove") = <<rm>>
        /\ n = 1 => /\ cs = <<rm>>
                    /\ r.h.pty_elts = h.pty_elts
                    /\ r.h.ht = ht_empty
        /\ n > 1 =>
             /\ cs = d.calls \o heapify_down([d EXCEPT !.calls = <<>>], 0).calls
             /\ \A k \in (Len(d.calls) + 1)..Len(cs) :
                  cs[k].val < n - 1 /\ cs[k].key # top.elt
             /\ \A q \in 0..MaxPty :
                  SlotsBelow(heapify_down([d EXCEPT !.pty_elts[n - 1].pty = q], 0),
                             n - 1)
                  = SlotsBelow(r.h, n - 1)
\* the last resident pair is about to be popped from a heap that grew to four
\* slots
C32_Witness ==
  /\ ~h.exited
  /\ h.num_elts = 1
  /\ h.count = 4
  /\ heap_pop(h, out).h.ht = ht_empty
  /\ heap_pop(h, out).out = h.pty_elts[0]
  /\ heap_pop(h, out).h.calls = <<[f |-> "remove", key |-> elt_ptr(h, 0), val |-> NULL]>>

\* every call of the log names a slot below n
CallsBelow(calls, n) == \A k \in 1..Len(calls) : calls[k].val \in 0..(n - 1)

\* C33. heapify_down index arithmetic: for every slot i < num_elts, in size_t
\* arithmetic, the loop guard holds exactly when the right child 2i + 2 is a
\* live slot and the test after the loop exactly when the left child 2i + 1
\* is the last live slot; no subexpression wraps, and no step of a sift
\* reads or writes a slot >= num_elts.
C33_IndexArithmetic ==
  ~h.exited =>
    LET n == h.num_elts
    IN  \A i \in IdxSlots(n) :
          /\ both_children(n, i) <=> 2 * i + 2 < n
          /\ lone_left(n, i) <=> 2 * i + 1 = n - 1
          /\ sz_add(i, 2) = i + 2
          /\ sz_add(i, 1) = i + 1
          /\ sz_sub(n, 1) = n - 1
          /\ sz_sub(sz_sub(n, 1), i) = n - 1 - i
          /\ (both_children(n, i) \/ lone_left(n, i)) =>
               /\ sz_add(sz_mul(2, i), 1) = 2 * i + 1
               /\ 2 * i + 1 < n
          /\ both_children(n, i) =>
               /\ sz_add(sz_mul(2, i), 2) = 2 * i + 2
               /\ 2 * i + 2 < n
          /\ \A b \in 1..MaxTenPty :
               /\ CallsBelow(SiftDown(i, b).calls, n)
               /\ CallsBelow(SiftUp(i, b).calls, n)
\* a heap of SIZE_MAX / 2 pairs: a sift down of the root with a greater
\* priority passes 14 slots and ends in a slot of the last level
C33_Witness ==
  /\ ~h.exited
  /\ h.num_elts = HALF_MAX - 1
  /\ LET ds == InsertSlots(SiftDown(0, 2))
     IN  /\ Len(ds) = 15
         /\ ds[15] = HALF_MAX \div 2 - 1

\* C34. In-bounds append: with an initial capacity min_num > 0, every
\* heap_grow that returns leaves the capacity strictly greater than before, so
\* whenever heap_push reaches its copy step num_elts < count holds and the
\* write to slot num_elts is inside the allocated array. With a capacity of 0
\* doubling leaves it at 0.
C34_InBoundsAppend ==
  ~h.exited =>
    LET n == h.num_elts
        g == heap_grow(h)
        r == heap_push(h, 1, n + 1)
    IN  /\ h.count > 0
        /\ n <= h.count
        /\ ~g.exited =>
             /\ g.count > h.count
             /\ DOMAIN g.pty_elts = 0..(g.count - 1)
        /\ ~r.exited =>
             /\ n < r.count
             /\ r.count = IF n = h.count THEN g.count ELSE h.count
             /\ n \in DOMAIN r.pty_elts
             /\ r.calls[1].f = "memcpy" /\ r.calls[1].val = n
             /\ CallsBelow(r.calls, r.count)
        /\ \A cm \in 1..MaxGrowCount :
             heap_grow(heap_init(h.pty_size, h.elt_size, 0, NULL, cm)).count = 0
\* a full heap of SIZE_MAX / 2 pairs whose push grows the array to count_max
\* and writes slot SIZE_MAX / 2
C34_Witness ==
  /\ ~h.exited
  /\ h.num_elts = HALF_MAX - 1
  /\ h.count = HALF_MAX - 1
  /\ h.count_max = HALF_MAX + 1
  /\ heap_push(h, 1, h.num_elts + 1).count = HALF_MAX + 1
  /\ heap_push(h, 1, h.num_elts + 1).num_elts = HALF_MAX

\* C35. Uniqueness is not validated: heap_push of an element that is already
\* resident is accepted like any other push (num_elts is incremented and two
\* slots then hold the element); the index then maps the element to exactly
\* one of the two slots and index consistency fails for the other.
C35_DuplicateAccepted ==
  ~h.exited =>
    \A pty \in Ptys, e \in Live :
      LET r  == heap_push(h, pty, e)
          fresh == CHOOSE x \in 0..MaxElt : x \notin Live
          ix == index_search(r, e)
      IN  /\ r.exited <=> heap_push(h, pty, fresh).exited
          /\ r.exited <=> (h.num_elts = h.count /\ h.count = h.count_max)
          /\ ~r.exited =>
               /\ r.num_elts = h.num_elts + 1
               /\ Cardinality(SlotsOf(r, e)) = 2
               /\ ix \in SlotsOf(r, e)
               /\ pty_ptr(r, ix) = pty
               /\ \A j \in SlotsOf(r, e) \ {ix} :
                    /\ index_search(r, elt_ptr(r, j)) # j
                    /\ pty_ptr(r, j) = given[e]
               /\ ~IndexConsistent(r)
               /\ HeapOrdered(r)
\* the element of the root, of priority 3, is pushed again with priority 1:
\* the new pair takes the root slot and the old pair moves down to slot 1
C35_Witness ==
  /\ ~h.exited
  /\ h.num_elts = 3
  /\ h.count = 4
  /\ pty_ptr(h, 0) = 3
  /\ LET r == heap_push(h, 1, elt_ptr(h, 0))
     IN  /\ SlotsOf(r, elt_ptr(h, 0)) = {0, 1}
         /\ index_search(r, elt_ptr(h, 0)) = 0
         /\ r.num_elts = 4

\* C36. heap_update performs no presence check: called with an element that
\* is not in the heap it uses the index's not-found result as a slot
\* reference, which is an error state and not a reported error (the fatal
\* path is not taken), whereas heap_search of the same element returns
\* not-found and changes nothing.
C36_UpdateAbsent ==
  (~h.exited /\ ~h.ub) =>
    \A pty \in Ptys, elt \in Elts \ Live :
      LET r == heap_update(h, pty, elt)
      IN  /\ index_search(h, elt) = NULL
          /\ NULL \notin DOMAIN h.pty_elts
          /\ r.ub
          /\ ~r.exited
          /\ r.calls = <<>>
          /\ heap_search(h, elt) = [h |-> h, ret |-> NULL]
\* an update of an absent element has been made on a heap of three pairs and
\* has written its priority over the priority of a resident element
C36_Witness ==
  /\ ~h.exited
  /\ ~h.ub
  /\ h.num_elts = 3
  /\ \E e \in Live : StoredPty(h, e) # given[e]
  /\ \E elt \in Elts \ Live : heap_update(h, 1, elt).ub

\* C37. heap_update is idempotent: for a present element e and a priority p, a
\* second heap_update(p, e) right after the first leaves the pair array, the
\* index and num_elts exactly as the first left them and relocates no pair;
\* likewise an update of e to the priority it already has changes no slot.
C37_UpdateIdempotent ==
  ~h.exited =>
    \A pty \in Ptys, e \in Live :
      LET r1 == Return(heap_update(h, pty, e))
          r2 == heap_update(r1, pty, e)
          r0 == heap_update(h, given[e], e)
      IN  /\ r2.pty_elts = r1.pty_elts
          /\ r2.ht = r1.ht
          /\ r2.num_elts = r1.num_elts
          /\ Return(r2) = r1
          /\ \A k \in 1..Len(r2.calls) : r2.calls[k].key = e
          /\ r0.pty_elts = h.pty_elts
          /\ r0.ht = h.ht
          /\ Return(r0) = h
\* the pair of slot 3 goes to the root by a first update, to priority 1, and
\* a second update to priority 1 leaves every slot as it is
C37_Witness ==
  /\ ~h.exited
  /\ h.num_elts = 4
  /\ pty_ptr(h, 0) = 2 /\ pty_ptr(h, 1) = 2 /\ pty_ptr(h, 3) = 3
  /\ LET e  == elt_ptr(h, 3)
         r1 == Return(heap_update(h, 1, e))
     IN  /\ elt_ptr(r1, 0) = e
         /\ elt_ptr(r1, 0) # elt_ptr(h, 0)
         /\ heap_update(r1, 1, e).pty_elts = r1.pty_elts

\* C38. The two heaps agree on priorities: after every step of a run of the
\* same pushes of distinct elements, updates of present elements and pops on
\* non-empty heaps, both have the same num_elts and hold the same priorities;
\* every pop outputs the same priority from both, each heap with an element
\* that was given that priority, so the popped elements differ only among
\* pairs of equal priority.
C38_HeapsAgree ==
  /\ ~h.exited
  /\ h.num_elts = hc.num_elts
  /\ PtyBag(h, h.num_elts) = c_PtyBag(hc, hc.num_elts)
  /\ popped # <<>> => out.pty = popped[1].pty
  /\ h.num_elts > 0 =>
       LET r  == heap_pop(h, out)
           rc == c_heap_pop(hc)
       IN  /\ r.out.pty = rc.pty
           /\ r.out.elt \in EltsOf(h)
           /\ Key(rc.elt) \in EltsOfC(hc)
           /\ given[r.out.elt] = r.out.pty
           /\ given[Key(rc.elt)] = rc.pty
\* the last pop output the same priority and different elements: the heaps
\* now hold different elements with the same priorities, and the next pop
\* outputs different elements again
C38_Witness ==
  /\ popped # <<>>
  /\ out.pty = popped[1].pty
  /\ PtrOf(out.elt) # popped[1].elt
  /\ h.num_elts = 2
  /\ EltsOfC(hc) # EltsOf(h)
  /\ PtrOf(heap_pop(h, out).out.elt) # c_heap_pop(hc).elt
\* C39. heap_pop of the heap without a hash table on an empty heap is a
\* no-op: num_elts stays 0, no slot outside [0, heap_size) is read or
\* written, and the caller's blocks are left as they were.
C39_EmptyPopNoOp ==
  [][CPopEmpty => /\ h'.num_elts = 0
                  /\ h'.fault = "none"
                  /\ out' = out]_vars
\* C40. The pair stride covers both fields: for all priority and element
\* sizes in the range, the pair_size of heap_init is a multiple of pty_size
\* and at least pty_size + elt_size (the pair_size of heap_align is at least
\* that sum as well); in every slot the element that elt_ptr addresses
\* starts at or after the end of the priority and ends inside the pair, the
\* next pair starts where the pair ends, and so the pair_size bytes copied
\* from pty_ptr(h, i) hold the priority and its element.
C40_PairStride ==
  /\ ~h.exited
  /\ h.hht_align = NULL => h.pair_size % h.pty_size = 0
  /\ h.pair_size >= h.pty_size + h.elt_size
  /\ \A i \in 0..(h.count - 1) :
       /\ pty_addr(h, i) = i * h.pair_size
       /\ elt_addr(h, i) >= pty_addr(h, i) + h.pty_size
       /\ elt_addr(h, i) + h.elt_size <= pty_addr(h, i) + h.pair_size
       /\ pty_addr(h, i + 1) = pty_addr(h, i) + h.pair_size
\* a heap whose priority is larger than its element and not a multiple of
\* it, so that the pair is padded, with a pair pushed into a second slot
C40_Witness ==
  /\ h.hht_align = NULL
  /\ h.pty_size > h.elt_size
  /\ h.pty_size % h.elt_size # 0
  /\ h.pair_size > h.pty_size + h.elt_size
  /\ h.num_elts >= 2
  /\ elt_addr(h, 1) + h.elt_size < pty_addr(h, 2)
====
